---- MODULE Spec2Model ----
(***************************************************************************)
(* Model of the stock-pool scan workers and of the scan-all merge of       *)
(* gui/widgets/stock_pool_panel.py.                                        *)
(*                                                                         *)
(* Encoding of values:                                                     *)
(*   - a candidate stock is a record with the dictionary keys the code     *)
(*     reads: code, name, source, data_source, priority, mainline_score,   *)
(*     change_pct (TechScanWorker adds _score);                            *)
(*   - codes and names are strings, "" being Python's empty string;        *)
(*   - percentages, ratios and market capitalisation are floats in the     *)
(*     source and are held here in tenths (9.9 is 99, -5 is -50, 30 is     *)
(*     300), which keeps every threshold of the code an integer.           *)
(***************************************************************************)
EXTENDS Integers, Sequences, FiniteSets, TLC

VARIABLES
    rank_pc,          \* position of the dedup-and-rank run: "input", "worker", "merged"
    stocks,           \* argument of MainlineScanWorker._deduplicate_and_sort
    unique_stocks,    \* its return value
    all_stocks,       \* StockPoolPanel._all_stocks
    unique,           \* local `unique` of _on_overview_external_done, after its sort
    overview_table,   \* rows of StockPoolPanel.overview_table
    scan_all_btn,     \* scan_all_btn.isEnabled()
    overview_progress_visible, \* overview_progress.isVisible()
    tech_pc,          \* position of TechScanWorker.run: "fetch", "loop", "done"
    market,           \* what ak.stock_zh_a_spot_em() answers: "error" or a list of rows
    df,               \* local `df` of TechScanWorker.run ("None" or a list of rows)
    tech_i,           \* index of the next row of `for _, row in df.iterrows()`
    tech_row,         \* locals of the loop body after the row last processed
    tech_stocks,      \* local `stocks` of TechScanWorker.run
    tech_finished,    \* the emissions of TechScanWorker.finished, as <<list, source>>
    ml_pc,            \* position of MainlineScanWorker.run: "start", "loop" (the head of
                      \* the loop), "body" (inside an iteration), "done"
    ml_env,           \* what the data sources answer: JQData login, MongoDB, score file,
                      \* the constituent query
    max_mainlines,    \* MainlineScanWorker.max_mainlines
    max_stocks_per_mainline, \* MainlineScanWorker.max_stocks_per_mainline
    ml_stop,          \* MainlineScanWorker._stop
    jqdata_mapped,    \* local `jqdata_mapped` of run
    ml_i,             \* number of iterations of the loop over jqdata_mapped[:total] completed
    mainline_stocks,  \* local `mainline_stocks` at the end of the last iteration
    ml_all_stocks,    \* local `all_stocks` of run
    ml_finished,      \* the emissions of MainlineScanWorker.finished, as <<list, source>>
    ml_progress,      \* the values MainlineScanWorker.run has emitted with its progress signal
    workers,          \* StockPoolPanel.workers: key -> number of workers stored under it so far
                      \* (the dictionary holds the last of them; 0: no entry)
    threads,          \* the workers whose run() is underway, as [key, n]: the n-th of its key
    qt_queue,         \* signals emitted by workers and queued for the UI thread, in order
    clicks,           \* number of clicks on a scan button that started a worker
    scan_choice,      \* how the last click on scan-all went: what _check_mainline_data and the user answered
    scan_results,     \* history: the lists the handlers of the current scan-all have received
    overview_status,  \* overview_status.text(), as a tag
    overview_source,  \* overview_source.text(), as the list of its parts
    tab_table,        \* rows of mainline_table, tech_table, etf_table, external_table
    tab_progress,     \* isVisible() of mainline_progress, tech_progress, etf_progress, external_progress
    tab_status,       \* text of mainline_status, tech_status, etf_status, external_status, as a tag
    code_preview,     \* the STOCK_POOL list of the script _generate_code wrote last, as a set
    signal_dialog,    \* the message box _generate_code showed last
    strategy_file,    \* the STOCK_POOL list in the script file of the day, <<>> without a file
    etf_pc,           \* position of ETFScanWorker.run: "fetch", "done"
    etf_market,       \* what ak.fund_etf_spot_em() answers: None/failure, or a list of rows
    etf_finished,     \* the emissions of ETFScanWorker.finished, as <<list, source>>
    ext_pc,           \* position of ExternalParseWorker.run: "parse", "done"
    ext_pool,         \* what ExternalDataParser().parse_all() answers
    ext_finished,     \* the emissions of ExternalParseWorker.finished, as <<list, source>>
    ff_env,           \* what the data sources of FactorFilterWorker answer
    jq_client,        \* FactorFilterTab.jq_client is not None
    min_score,        \* min_score_spin.value()
    ff_pc,            \* position of FactorFilterWorker.run: "none" (no worker), "fetch",
                      \* "merge", "score", "emitted", "exited"
    ff_mainlines,     \* FactorFilterWorker.mainlines
    ff_top_n,         \* FactorFilterWorker.top_n
    stocks_by_mainline, \* local `stocks_by_mainline` of run
    all_stock_codes,  \* local `all_stock_codes` of run
    stock_mainline_map, \* local `stock_mainline_map` of run
    ff_emitted,       \* history: the finished and error emissions of the current worker
    ff_queue,         \* signals of FactorFilterWorker queued for the UI thread
    ff_runs,          \* number of workers _start_filter has started
    filter_btn,       \* filter_btn.isEnabled()
    ff_progress_visible, \* FactorFilterTab.progress.isVisible()
    ff_status,        \* status_label.text(), as a tag and the count it displays
    current_signals,  \* FactorFilterTab.current_signals
    ff_table,         \* rows of FactorFilterTab.table
    pool_stocks,      \* the stocks argument of the call of process_candidate_pool
    ff_terminating,   \* terminate() was called on a worker whose thread has not ended yet
    ff_dialog         \* the message box shown last: "none", "warning", "question", "critical"

rankVars == <<rank_pc, stocks, unique_stocks, all_stocks, unique, overview_table,
              scan_all_btn, overview_progress_visible>>

techVars == <<tech_pc, market, df, tech_i, tech_row, tech_stocks, tech_finished>>

mlVars == <<ml_pc, ml_env, max_mainlines, max_stocks_per_mainline, ml_stop, jqdata_mapped,
            ml_i, mainline_stocks, ml_all_stocks, ml_finished, ml_progress>>

panelVars == <<workers, threads, qt_queue, clicks, scan_choice, scan_results,
               overview_status, overview_source, tab_table, tab_progress,
               tab_status, code_preview, signal_dialog,
               strategy_file>>

runVars == <<etf_pc, etf_market, etf_finished, ext_pc, ext_pool, ext_finished>>

ffVars == <<ff_env, jq_client, min_score, ff_pc, ff_mainlines, ff_top_n, stocks_by_mainline,
            all_stock_codes, stock_mainline_map, ff_emitted, ff_queue, ff_runs, filter_btn,
            ff_progress_visible, ff_status, current_signals, ff_table, pool_stocks, ff_terminating,
            ff_dialog>>

vars == <<rankVars, techVars, mlVars, panelVars, runVars, ffVars>>

(***************************************************************************)
(* Bounds of the model.                                                    *)
(***************************************************************************)
\* longest input list drawn exhaustively from the record pool
MaxLen == 3
\* longest patterned input list (long enough to pass both truncation caps)
MaxLong == 52
\* number of patterns of long input lists
MaxPattern == 3
\* most rows of a market snapshot
MaxRows == 30
\* most mainlines in the list MongoDB answers
MaxMainlines == 2
\* most clicks on scan buttons (scan-all or a tab's) that start a worker
MaxClicks == 3
\* most rows of an ETF snapshot (more than the 30 the worker looks at)
MaxEtfRows == 31
\* longest candidate pool the factor filter loads
MaxCandidates == 2
\* most filter runs started on the factor filter tab
MaxFilterRuns == 2

(***************************************************************************)
(* Program constants.                                                      *)
(***************************************************************************)
\* unique[:30] of MainlineScanWorker._deduplicate_and_sort
WorkerCap == 30
\* unique[:50] of StockPoolPanel._on_overview_external_done
OverviewCap == 50
\* stocks[:20] of TechScanWorker.run
TechCap == 20
\* stocks[:50] of MainlineScanWorker._get_stocks_from_jqdata
ConstituentCap == 50
\* the defaults of MainlineScanWorker.__init__
DefaultMaxMainlines == 10
DefaultMaxStocksPerMainline == 5
\* list(codes)[:20] of StockPoolPanel._generate_code
CodeCap == 20
\* ETFScanWorker: head(30), `amount < 1` (1e8 yuan, held in tenths), etfs[:20]
EtfHead == 30
EtfMinAmount == 10
EtfCap == 20
\* FactorFilterWorker: stocks[:20] per mainline, all_stock_codes[:100]
PerMainlineCap == 20
PoolCap == 100
\* FactorFilterTab: the range minimum and the default of top_n_spin, the
\* default of min_score_spin
MinTopN == 10
DefaultTopN == 30
DefaultMinScore == 50

(***************************************************************************)
(* Sequence helpers.                                                       *)
(***************************************************************************)

Min(a, b) == IF a <= b THEN a ELSE b

\* Python's s[:n]
Take(s, n) == SubSeq(s, 1, Min(n, Len(s)))

\* Python compares key tuples lexicographically
RECURSIVE TupleLess(_, _)
TupleLess(k1, k2) ==
    IF k1 = <<>> \/ k2 = <<>> THEN k1 = <<>> /\ k2 # <<>>
    ELSE IF k1[1] # k2[1] THEN k1[1] < k2[1]
    ELSE TupleLess(Tail(k1), Tail(k2))

\* list.sort(key=...) is a stable sort. `keys` holds the key of every element;
\* the result lists the indices of the elements in sorted order. An index is
\* inserted behind every index whose key is not greater than its own.
RECURSIVE InsertStable(_, _, _)
InsertStable(i, perm, keys) ==
    IF perm = <<>> THEN <<i>>
    ELSE IF TupleLess(keys[i], keys[perm[1]]) THEN <<i>> \o perm
    ELSE <<perm[1]>> \o InsertStable(i, Tail(perm), keys)

RECURSIVE SortPermFrom(_, _, _)
SortPermFrom(perm, i, keys) ==
    IF i > Len(keys) THEN perm
    ELSE SortPermFrom(InsertStable(i, perm, keys), i + 1, keys)

StableSort(s, keys) ==
    LET perm == SortPermFrom(<<>>, 1, keys)
    IN  [j \in 1..Len(s) |-> s[perm[j]]]

(***************************************************************************)
(* MainlineScanWorker._deduplicate_and_sort                                *)
(***************************************************************************)
\* the loop of lines 489-493: `if code and code not in seen`
RECURSIVE WorkerDedupFrom(_, _, _)
WorkerDedupFrom(seen, acc, s) ==
    IF s = <<>> THEN acc
    ELSE LET code == s[1].code IN
         IF code # "" /\ code \notin seen
         THEN WorkerDedupFrom(seen \cup {code}, Append(acc, s[1]), Tail(s))
         ELSE WorkerDedupFrom(seen, acc, Tail(s))

WorkerDedup(s) == WorkerDedupFrom({}, <<>>, s)

\* faulty variant of WorkerKey: the score is not negated, so low scores come first
WorkerKey_ScoreAscending(x) == <<x.priority, x.mainline_score, -x.change_pct>>

\* key=lambda x: (x.get("priority", 5), -x.get("mainline_score", 0), -x.get("change_pct", 0))
WorkerKey(x) == <<x.priority, -x.mainline_score, -x.change_pct>>

\* faulty variant of WorkerSorted: sorted descending and then reversed, which
\* turns the order of records with equal keys around
WorkerSorted_ReversedTies(s) ==
    LET u == WorkerDedup(s)
        d == StableSort(u, [i \in 1..Len(u) |->
                               <<-u[i].priority, u[i].mainline_score, u[i].change_pct>>])
    IN  [i \in 1..Len(d) |-> d[Len(d) + 1 - i]]

WorkerSorted(s) ==
    LET u == WorkerDedup(s)
    IN  StableSort(u, [i \in 1..Len(u) |-> WorkerKey(u[i])])

\* faulty variant of deduplicate_and_sort: the list is cut before it is sorted
deduplicate_and_sort_CutFirst(s) ==
    LET u == Take(WorkerDedup(s), WorkerCap)
    IN  StableSort(u, [i \in 1..Len(u) |-> WorkerKey(u[i])])

deduplicate_and_sort(s) == Take(WorkerSorted(s), WorkerCap)

(***************************************************************************)
(* StockPoolPanel._on_overview_external_done: the merge                    *)
(***************************************************************************)
\* faulty variant of MergeKey: no fall-back to the name
MergeKey_CodeOnly(s) == s.code

\* key = code if code else name
MergeKey(s) == IF s.code # "" THEN s.code ELSE s.name

\* the loop of lines 1144-1151: `if key and key not in seen`
RECURSIVE MergeDedupFrom(_, _, _)
MergeDedupFrom(seen, acc, s) ==
    IF s = <<>> THEN acc
    ELSE LET key == MergeKey(s[1]) IN
         IF key # "" /\ key \notin seen
         THEN MergeDedupFrom(seen \cup {key}, Append(acc, s[1]), Tail(s))
         ELSE MergeDedupFrom(seen, acc, Tail(s))

MergeDedup(s) == MergeDedupFrom({}, <<>>, s)

\* key=lambda x: (x.get("priority", 5), -x.get("mainline_score", 0))
MergeSortKey(x) == <<x.priority, -x.mainline_score>>

\* faulty variant of MergeSorted: the list is sorted before it is deduplicated
MergeSorted_SortFirst(s) ==
    MergeDedup(StableSort(s, [i \in 1..Len(s) |-> MergeSortKey(s[i])]))

MergeSorted(s) ==
    LET u == MergeDedup(s)
    IN  StableSort(u, [i \in 1..Len(u) |-> MergeSortKey(u[i])])

(***************************************************************************)
(* Inputs of the dedup-and-rank run.                                       *)
(***************************************************************************)
Codes == {"", "600519", "300750"}
Names == {"", "Moutai"}
\* <<priority, mainline_score, change_pct>>
Ranks == {<<1, 80, 0>>, <<2, 60, 0>>, <<2, 60, 52>>}

Stock(code, name, source, data_source, priority, mainline_score, change_pct) ==
    [code |-> code, name |-> name, source |-> source, data_source |-> data_source,
     priority |-> priority, mainline_score |-> mainline_score, change_pct |-> change_pct]

RecordPool ==
    {Stock(c, n, "mainline", "pool", r[1], r[2], r[3]) : c \in Codes, n \in Names, r \in Ranks}

\* every list of at most MaxLen records of the pool
ShortLists == UNION {[1..n -> RecordPool] : n \in 0..MaxLen}

\* element i of the long list of pattern p: the codes are distinct except that,
\* in the patterns above 1, every (p+8)-th record repeats the code of its
\* predecessor; every 11th record has no code and is identified by its name.
LongIdx(i, p) == IF p > 1 /\ i % (p + 8) = 0 THEN i - 1 ELSE i

LongRecord(i, p) ==
    Stock(IF i % 11 = 0 THEN "" ELSE "6" \o ToString(10000 + LongIdx(i, p)),
          "n" \o ToString(LongIdx(i, p)),
          "mainline", "long",
          1 + ((i * p) % 3),
          ((i * (p + 1)) % 4) * 20,
          ((i * 7) % 5) * 10 - 20)

LongLists == {[i \in 1..n |-> LongRecord(i, p)] : n \in (MaxLen + 1)..MaxLong, p \in 1..MaxPattern}

InputLists == ShortLists \cup LongLists

\* what ExternalParseWorker may deliver to the last handler of a scan-all:
\* nothing, or a record whose code is also a code of the pool
ExternalLists ==
    {<<>>, <<Stock("600519", "Kweichow", "broker", "external", 1, 0, 0)>>}

(***************************************************************************)
(* The dedup-and-rank run: the two callers applied to a drawn input.       *)
(***************************************************************************)
RankIdle ==
    /\ rank_pc = "idle"
    /\ stocks = <<>>
    /\ all_stocks = <<>>
    /\ unique_stocks = <<>>
    /\ unique = <<>>
    /\ overview_table = <<>>
    /\ scan_all_btn = TRUE
    /\ overview_progress_visible = FALSE

RankInit ==
    /\ rank_pc = "input"
    /\ stocks \in InputLists
    /\ all_stocks = stocks
    /\ unique_stocks = <<>>
    /\ unique = <<>>
    /\ overview_table = <<>>
    /\ scan_all_btn = FALSE
    /\ overview_progress_visible = TRUE

\* MainlineScanWorker.run, step 4: unique_stocks = self._deduplicate_and_sort(all_stocks)
DeduplicateAndSort ==
    /\ rank_pc = "input"
    /\ unique_stocks' = deduplicate_and_sort(stocks)
    /\ rank_pc' = "worker"
    /\ UNCHANGED <<stocks, all_stocks, unique, overview_table, scan_all_btn,
                   overview_progress_visible>>
    /\ UNCHANGED <<techVars, mlVars, panelVars, runVars, ffVars>>

\* lines 1136-1162 of _on_overview_external_done: extend, deduplicate, sort,
\* fill the table with the first 50, hide the progress bar, enable the button
MergeAndShow(ext) ==
    /\ all_stocks' = all_stocks \o ext
    /\ unique' = MergeSorted(all_stocks')
    /\ overview_table' = Take(unique', OverviewCap)
    /\ overview_progress_visible' = FALSE
    /\ scan_all_btn' = TRUE

\* StockPoolPanel._on_overview_external_done(stocks, source)
OnOverviewExternalDone(ext) ==
    /\ rank_pc = "worker"
    /\ MergeAndShow(ext)
    /\ rank_pc' = "merged"
    /\ UNCHANGED <<stocks, unique_stocks>>
    /\ UNCHANGED <<techVars, mlVars, panelVars, runVars, ffVars>>

RankNext ==
    \/ DeduplicateAndSort
    \/ \E ext \in ExternalLists : OnOverviewExternalDone(ext)

(***************************************************************************)
(* TechScanWorker.run                                                      *)
(***************************************************************************)
\* a row of the market snapshot: the cells the loop reads. total_mv is the
\* cell "total market value" in units of 10^7 yuan, so that dividing it by
\* 100000000 (line 568) yields the capitalisation in tenths of 100M.
Row(name, code, change, volume_ratio, turnover, total_mv) ==
    [name |-> name, code |-> code, change |-> change, volume_ratio |-> volume_ratio,
     turnover |-> turnover, total_mv |-> total_mv]

\* float(row.get(k, d) or d): a cell that is missing, None or 0 yields d
OrDefault(v, d) == IF v = 0 THEN d ELSE v

\* "ST" in name
ContainsST(name) == \E i \in 1..(Len(name) - 1) : SubSeq(name, i, i + 1) = "ST"

\* faulty variant of MomentumScore: strict comparisons
MomentumScore_Strict(change_pct) ==
    IF change_pct > 99 THEN 40
    ELSE IF change_pct > 70 THEN 25
    ELSE IF change_pct > 50 THEN 15
    ELSE 0

\* lines 578-586: the momentum branch of the score
MomentumScore(change_pct) ==
    IF change_pct >= 99 THEN 40
    ELSE IF change_pct >= 70 THEN 25
    ELSE IF change_pct >= 50 THEN 15
    ELSE 0

\* lines 588-593: the volume branch of the score
VolumeScore(volume_ratio) ==
    IF volume_ratio >= 30 THEN 25
    ELSE IF volume_ratio >= 20 THEN 15
    ELSE 0

\* lines 595-597: the turnover branch of the score
TurnoverScore(turnover) == IF 50 <= turnover /\ turnover <= 150 THEN 10 ELSE 0

\* lines 575-597: score = 0, then each branch adds to it
TechScore(change_pct, volume_ratio, turnover) ==
    0 + MomentumScore(change_pct) + VolumeScore(volume_ratio) + TurnoverScore(turnover)

\* lines 575-597: the signals appended next to each addition
TechSignals(change_pct, volume_ratio, turnover) ==
       (IF change_pct >= 99 THEN <<"limit_up">>
        ELSE IF change_pct >= 70 THEN <<"big_rise">>
        ELSE IF change_pct >= 50 THEN <<"rise">>
        ELSE <<>>)
    \o (IF volume_ratio >= 30 THEN <<"volume_3x">>
        ELSE IF volume_ratio >= 20 THEN <<"volume_2x">>
        ELSE <<>>)
    \o (IF 50 <= turnover /\ turnover <= 150 THEN <<"active_turnover">> ELSE <<>>)

\* faulty variant of CapRejected: the upper limit is not tested
CapRejected_LowerOnly(market_cap) == market_cap < 300

\* line 571: the capitalisation filter
CapRejected(market_cap) == market_cap < 300 \/ market_cap > 50000

\* line 600: only rows with a signal and a score of at least 25 are kept
TechAccepted(signals, score) == signals # <<>> /\ score >= 25

\* the body of the loop (lines 554-613) on one row: the values of its locals
\* when the iteration ends, `skipped` naming the `continue` that was taken
TechBody(i, row) ==
    LET change_pct   == OrDefault(row.change, 0)
        volume_ratio == OrDefault(row.volume_ratio, 10)
        turnover     == OrDefault(row.turnover, 0)
        market_cap   == OrDefault(row.total_mv, 0)
        signals      == TechSignals(change_pct, volume_ratio, turnover)
        score        == TechScore(change_pct, volume_ratio, turnover)
        blank        == [row |-> i, skipped |-> "", change_pct |-> 0, volume_ratio |-> 0, turnover |-> 0,
                         market_cap |-> 0, signals |-> <<>>, score |-> 0, accepted |-> FALSE]
    IN  IF row.name = "" \/ row.code = "" THEN [blank EXCEPT !.skipped = "blank"]
        ELSE IF ContainsST(row.name) THEN [blank EXCEPT !.skipped = "ST"]
        ELSE IF CapRejected(market_cap)
             THEN [blank EXCEPT !.skipped = "cap", !.change_pct = change_pct,
                                !.volume_ratio = volume_ratio, !.turnover = turnover,
                                !.market_cap = market_cap]
        ELSE [row |-> i, skipped |-> "", change_pct |-> change_pct,
              volume_ratio |-> volume_ratio, turnover |-> turnover,
              market_cap |-> market_cap, signals |-> signals, score |-> score,
              accepted |-> TechAccepted(signals, score)]

\* lines 601-613: the record appended for an accepted row
TechRecord(row, b, data_source_desc) ==
    [code |-> row.code, name |-> row.name, source |-> "tech_breakout",
     data_source |-> data_source_desc, priority |-> IF b.score >= 50 THEN 2 ELSE 3,
     mainline_score |-> 0, change_pct |-> b.change_pct, _score |-> b.score]

\* faulty variant of TechRanked: the list is cut before it is sorted
TechRanked_CutFirst(s) ==
    LET c == Take(s, TechCap)
    IN  StableSort(c, [i \in 1..Len(c) |-> <<-c[i]._score>>])

\* lines 616-617: stocks.sort(key=_score, reverse=True); stocks = stocks[:20]
\* (a reversed sort is stable too: equal scores keep their order)
TechRanked(s) ==
    Take(StableSort(s, [i \in 1..Len(s) |-> <<-s[i]._score>>]), TechCap)

get_mock_tech_stocks ==
    << [code |-> "300750", name |-> "CATL", source |-> "tech_breakout", data_source |-> "mock",
        priority |-> 2, mainline_score |-> 0, change_pct |-> 100],
       [code |-> "002594", name |-> "BYD", source |-> "tech_breakout", data_source |-> "mock",
        priority |-> 2, mainline_score |-> 0, change_pct |-> 99] >>

(***************************************************************************)
(* Inputs of TechScanWorker: market snapshots.                             *)
(***************************************************************************)
\* cell values around every threshold of the score
ChangeGrid == <<0, 49, 50, 69, 70, 98, 99, 100, -30>>
TurnoverGrid == <<0, 49, 50, 150, 151>>
VolumeGrid == <<0, 19, 20, 29, 30, 10>>

GridSize == Len(ChangeGrid) * Len(TurnoverGrid) * Len(VolumeGrid)

\* row i of the snapshot of seed s: its (change, turnover, volume ratio) walk
\* through the grid from point s on; every 7th row has a capitalisation out
\* of range, every 9th a name that is empty or holds "ST", every 11th no code
SnapshotRow(i, s) ==
    LET g == (s + i - 1) % GridSize IN
    Row(IF i % 9 # 0 THEN (IF i % 4 = 0 THEN "Best" ELSE "Co") \o ToString(i)
        ELSE IF i % 27 = 0 THEN "" ELSE IF i % 18 = 0 THEN "STAR" ELSE "*ST Beta",
        IF i % 11 = 0 THEN "" ELSE "00" \o ToString(1000 + i),
        ChangeGrid[(g % Len(ChangeGrid)) + 1],
        VolumeGrid[((g \div (Len(ChangeGrid) * Len(TurnoverGrid))) % Len(VolumeGrid)) + 1],
        TurnoverGrid[((g \div Len(ChangeGrid)) % Len(TurnoverGrid)) + 1],
        IF i % 7 = 0 THEN (IF i % 14 = 0 THEN 50001 ELSE 299)
        ELSE IF i % 3 = 0 THEN 1000 ELSE IF i % 2 = 0 THEN 50000 ELSE 300)

Snapshots ==
    {[i \in 1..n |-> SnapshotRow(i, s)] : n \in 0..MaxRows, s \in 0..(GridSize - 1)}

\* the call fails (or returns None), or answers a snapshot
MarketAnswers ==
    {[ok |-> FALSE, rows |-> <<>>]} \cup {[ok |-> TRUE, rows |-> r] : r \in Snapshots}

(***************************************************************************)
(* TechScanWorker.run as a process.                                        *)
(***************************************************************************)
NoRow == [row |-> 0, skipped |-> "none", change_pct |-> 0, volume_ratio |-> 0, turnover |-> 0,
          market_cap |-> 0, signals |-> <<>>, score |-> 0, accepted |-> FALSE]

TechIdle ==
    /\ tech_pc = "idle"
    /\ market = [ok |-> FALSE, rows |-> <<>>]
    /\ df = <<>>
    /\ tech_i = 1
    /\ tech_row = NoRow
    /\ tech_stocks = <<>>
    /\ tech_finished = <<>>

TechInit ==
    /\ tech_pc = "fetch"
    /\ market \in MarketAnswers
    /\ df = <<>>
    /\ tech_i = 1
    /\ tech_row = NoRow
    /\ tech_stocks = <<>>
    /\ tech_finished = <<>>

\* lines 528-549: fetch the snapshot; None or an empty frame ends the run
\* with the mock list
TechFetch ==
    /\ tech_pc = "fetch"
    /\ df' = IF market.ok THEN market.rows ELSE <<>>
    /\ IF df' = <<>>
       THEN /\ tech_finished' = Append(tech_finished, <<get_mock_tech_stocks, "mock">>)
            /\ tech_pc' = "done"
       ELSE /\ tech_finished' = tech_finished
            /\ tech_pc' = "loop"
    /\ UNCHANGED <<market, tech_i, tech_row, tech_stocks>>
    /\ UNCHANGED <<rankVars, mlVars, panelVars, runVars, ffVars>>

\* lines 553-613: one iteration of the loop
TechRow ==
    /\ tech_pc = "loop"
    /\ tech_i <= Len(df)
    /\ LET b == TechBody(tech_i, df[tech_i]) IN
       /\ tech_row' = b
       /\ tech_stocks' = IF b.accepted
                         THEN Append(tech_stocks, TechRecord(df[tech_i], b, "AKShare"))
                         ELSE tech_stocks
    /\ tech_i' = tech_i + 1
    /\ UNCHANGED <<tech_pc, market, df, tech_finished>>
    /\ UNCHANGED <<rankVars, mlVars, panelVars, runVars, ffVars>>

\* lines 615-620: sort, cut, emit
TechFinish ==
    /\ tech_pc = "loop"
    /\ tech_i > Len(df)
    /\ tech_stocks' = TechRanked(tech_stocks)
    /\ tech_finished' = Append(tech_finished, <<tech_stocks', "AKShare">>)
    /\ tech_pc' = "done"
    /\ UNCHANGED <<market, df, tech_i, tech_row>>
    /\ UNCHANGED <<rankVars, mlVars, panelVars, runVars, ffVars>>

\* lines 622-625: an exception in the loop body (a cell float() cannot
\* convert) ends the run with the mock list
TechRaise ==
    /\ tech_pc = "loop"
    /\ tech_i <= Len(df)
    /\ tech_finished' = Append(tech_finished, <<get_mock_tech_stocks, "mock">>)
    /\ tech_pc' = "done"
    /\ UNCHANGED <<market, df, tech_i, tech_row, tech_stocks>>
    /\ UNCHANGED <<rankVars, mlVars, panelVars, runVars, ffVars>>

TechNext ==
    \/ TechFetch
    \/ TechRow
    \/ TechFinish
    \/ TechRaise

(***************************************************************************)
(* MainlineScanWorker: the data sources, as the worker sees them.          *)
(***************************************************************************)
\* jq_client.get_concept_stocks(code) / get_industry_stocks(code)
JQConceptStocks(jqdata_code) ==
    IF jqdata_code = "GN001"
    THEN <<"000001.XSHE", "000002.XSHE", "600003.XSHG", "000004.XSHE", "000005.XSHE",
           "600006.XSHG", "000007.XSHE">>
    ELSE <<>>

JQIndustryStocks(jqdata_code) ==
    IF jqdata_code = "HY002" THEN <<"000001.XSHE", "000008.XSHE">> ELSE <<>>

\* display name (get_all_securities) and daily change in tenths of a percent
\* (the AKShare snapshot) of a constituent
Quote(jq) ==
    CASE jq = "000001.XSHE" -> [name |-> "Alpha", change_pct |-> 30]
      [] jq = "000002.XSHE" -> [name |-> "Beta", change_pct |-> -50]
      [] jq = "600003.XSHG" -> [name |-> "Gamma", change_pct |-> -60]
      [] jq = "000004.XSHE" -> [name |-> "Delta", change_pct |-> 100]
      [] jq = "000005.XSHE" -> [name |-> "Epsilon", change_pct |-> -49]
      [] jq = "600006.XSHG" -> [name |-> "Zeta", change_pct |-> 0]
      [] jq = "000007.XSHE" -> [name |-> "Eta", change_pct |-> 10]
      [] OTHER -> [name |-> "Theta", change_pct |-> 20]

\* MainlineMapper.map_mainline(name): the mapping found, if any
MapperAnswer(name) ==
    IF name = "AI"
    THEN [jqdata_mapped |-> TRUE, jqdata_code |-> "GN001", jqdata_type |-> "concept"]
    ELSE [jqdata_mapped |-> FALSE, jqdata_code |-> "", jqdata_type |-> ""]

(***************************************************************************)
(* MainlineScanWorker: helpers of run.                                     *)
(***************************************************************************)
Mainline(name, jqdata_code, jqdata_type, mapped, total_score, leader_stock, leader_change) ==
    [name |-> name, jqdata_code |-> jqdata_code, jqdata_type |-> jqdata_type,
     jqdata_mapped |-> mapped, total_score |-> total_score,
     leader_stock |-> leader_stock, leader_change |-> leader_change]

\* _map_mainlines_to_jqdata: entries without a name are skipped, the others
\* get the mapper's answer (None is "" here)
RECURSIVE map_mainlines_to_jqdata(_)
map_mainlines_to_jqdata(mainlines) ==
    IF mainlines = <<>> THEN <<>>
    ELSE LET m == mainlines[1]
             a == MapperAnswer(m.name)
         IN  (IF m.name = "" THEN <<>>
              ELSE <<Mainline(m.name, a.jqdata_code, a.jqdata_type, a.jqdata_mapped,
                              m.total_score, m.leader_stock, m.leader_change)>>)
             \o map_mainlines_to_jqdata(Tail(mainlines))

\* stock.replace('.XSHE', '').replace('.XSHG', '')
StripExchange(jq) ==
    IF Len(jq) > 5 /\ SubSeq(jq, Len(jq) - 4, Len(jq)) \in {".XSHE", ".XSHG"}
    THEN SubSeq(jq, 1, Len(jq) - 5)
    ELSE jq

\* _get_stocks_from_jqdata
get_stocks_from_jqdata(jqdata_code, jqdata_type) ==
    LET found == IF jqdata_type = "concept" THEN JQConceptStocks(jqdata_code)
                 ELSE IF jqdata_type = "industry" THEN JQIndustryStocks(jqdata_code)
                 ELSE <<>>
        kept  == Take(found, ConstituentCap)
    IN  [i \in 1..Len(kept) |-> [code |-> StripExchange(kept[i]), jqdata_code |-> kept[i]]]

\* _create_leader_stock: the record has no code
create_leader_stock(leader_name, score, change) ==
    Stock("", leader_name, "mainline", "leader", 1, score, change)

\* line 392: `if change_pct > -5 or score >= 70`
IsStrong(change_pct, score) == change_pct > -50 \/ score >= 70

\* _filter_strong_stocks_jqdata: a record per constituent that passes line
\* 392, sorted by change_pct descending
filter_strong_stocks_jqdata(cs, score) ==
    LET recs == [i \in 1..Len(cs) |->
                    Stock(cs[i].code, Quote(cs[i].jqdata_code).name, "mainline",
                          "JQData+AKShare", 2, score, Quote(cs[i].jqdata_code).change_pct)]
        Passes(r) == IsStrong(r.change_pct, score)
        result == SelectSeq(recs, Passes)
    IN  StableSort(result, [i \in 1..Len(result) |-> <<-result[i].change_pct>>])

\* lines 175: `if jqdata_code and score >= 60`
WantsConstituents(jqdata_code, score) == jqdata_code # "" /\ score >= 60

\* faulty variant of PickConstituents: the slice is missing
PickConstituents_NoLimit(strong_stocks, leader, limit) ==
    LET NotLeader(s) == s.name # leader
    IN  SelectSeq(strong_stocks, NotLeader)

\* lines 185-186: drop the leader by name, keep the first max_stocks_per_mainline
PickConstituents(strong_stocks, leader, limit) ==
    LET NotLeader(s) == s.name # leader
    IN  Take(SelectSeq(strong_stocks, NotLeader), limit)

\* the body of the loop (lines 155-186) on one mainline: its mainline_stocks
MainlineStocksOf(m, limit) ==
    LET score == m.total_score
        leader == m.leader_stock
        first == IF leader # "" THEN <<create_leader_stock(leader, score, m.leader_change)>>
                 ELSE <<>>
        \* the query raising is caught in _get_stocks_from_jqdata (lines 339-341): []
        concept_stocks == IF WantsConstituents(m.jqdata_code, score) /\ ml_env.fetch_ok
                          THEN get_stocks_from_jqdata(m.jqdata_code, m.jqdata_type)
                          ELSE <<>>
    IN  IF concept_stocks # <<>>
        THEN first \o PickConstituents(filter_strong_stocks_jqdata(concept_stocks, score),
                                       leader, limit)
        ELSE first

\* line 141: the mainlines that are mapped to JQData
IsMapped(m) == m.jqdata_mapped \/ m.jqdata_code # ""

get_mock_mainline_stocks ==
    << Stock("002230", "iFlytek", "mainline", "mock", 1, 88, 52),
       Stock("300750", "CATL", "mainline", "mock", 1, 85, 38),
       Stock("688981", "SMIC", "mainline", "mock", 1, 82, 45),
       Stock("600760", "AVIC", "mainline", "mock", 1, 80, 61),
       Stock("601012", "LONGi", "mainline", "mock", 1, 78, 29) >>

(***************************************************************************)
(* Inputs of MainlineScanWorker.                                           *)
(***************************************************************************)
MainlineScores == {59, 60, 70}
Leaders == {"", "Alpha"}
\* <<jqdata_code, jqdata_type, jqdata_mapped>>
Mappings == {<<"", "", FALSE>>, <<"", "concept", TRUE>>, <<"GN001", "concept", TRUE>>,
             <<"HY002", "industry", FALSE>>}

MainlinePool ==
    {Mainline("AI", g[1], g[2], g[3], sc, l, 25) :
        g \in Mappings, sc \in MainlineScores, l \in Leaders}

MainlineLists == UNION {[1..n -> MainlinePool] : n \in 1..MaxMainlines}

\* the score file: absent, or one entry (mapped, unknown to the mapper, unnamed)
FileLists ==
    {<<>>} \cup
    {<<[name |-> n, total_score |-> 70, leader_stock |-> "Alpha", leader_change |-> 25]>> :
        n \in {"AI", "Robots", ""}}

\* jq_ok: the JQData login succeeds; mongo_ok: MongoDB answers; mongo: the
\* mainlines of its latest document; file: the entries of the score file;
\* fetch_ok: the constituent queries of JQData answer
Env(jq_ok, mongo_ok, mongo, file, fetch_ok) ==
    [jq_ok |-> jq_ok, mongo_ok |-> mongo_ok, mongo |-> mongo, file |-> file,
     fetch_ok |-> fetch_ok]

MlEnvs ==
    {Env(FALSE, FALSE, <<>>, <<>>, FALSE)}
    \cup {Env(TRUE, TRUE, l, <<>>, ok) : l \in MainlineLists, ok \in BOOLEAN}
    \cup {Env(TRUE, ok, <<>>, f, TRUE) : f \in FileLists, ok \in BOOLEAN}

\* <<max_mainlines, max_stocks_per_mainline>>: the defaults and the smallest values
WorkerArgs == {<<DefaultMaxMainlines, DefaultMaxStocksPerMainline>>, <<1, 1>>}

(***************************************************************************)
(* MainlineScanWorker.run as a process, and stop() called from the UI.     *)
(***************************************************************************)
MlIdle ==
    /\ ml_pc = "idle"
    /\ ml_env = [jq_ok |-> FALSE, mongo_ok |-> FALSE, mongo |-> <<>>, file |-> <<>>,
                 fetch_ok |-> FALSE]
    /\ max_mainlines = DefaultMaxMainlines
    /\ max_stocks_per_mainline = DefaultMaxStocksPerMainline
    /\ ml_stop = FALSE
    /\ jqdata_mapped = <<>>
    /\ ml_i = 0
    /\ mainline_stocks = <<>>
    /\ ml_all_stocks = <<>>
    /\ ml_finished = <<>>
    /\ ml_progress = <<>>

MlInit ==
    /\ ml_pc = "start"
    /\ ml_env \in MlEnvs
    /\ \E a \in WorkerArgs : max_mainlines = a[1] /\ max_stocks_per_mainline = a[2]
    /\ ml_stop = FALSE
    /\ jqdata_mapped = <<>>
    /\ ml_i = 0
    /\ mainline_stocks = <<>>
    /\ ml_all_stocks = <<>>
    /\ ml_finished = <<>>
    /\ ml_progress = <<>>

\* lines 125-133: MongoDB first, the score file mapped on the fly otherwise
LoadMapped(env) ==
    IF env.mongo_ok /\ env.mongo # <<>> THEN env.mongo
    ELSE IF env.file # <<>> THEN map_mainlines_to_jqdata(env.file)
    ELSE <<>>

\* lines 115-145: the values of the progress signal up to the loop: 5; 100
\* when the login fails; 10; 15 and, with entries in the file, 20 when
\* MongoDB gave nothing; 50 when nothing was loaded; 15; 50 when nothing is
\* mapped
StartProgress(env) ==
    IF ~env.jq_ok THEN <<5, 100>>
    ELSE LET from_mongo == env.mongo_ok /\ env.mongo # <<>>
             loaded == <<5, 10>>
                       \o (IF from_mongo THEN <<>> ELSE <<15>>)
                       \o (IF ~from_mongo /\ env.file # <<>> THEN <<20>> ELSE <<>>)
         IN  IF LoadMapped(env) = <<>> THEN loaded \o <<50>>
             ELSE IF SelectSeq(LoadMapped(env), IsMapped) = <<>> THEN loaded \o <<15, 50>>
             ELSE loaded \o <<15>>

\* lines 113-147: login, load, filter; every dead end emits the mock list
MlStart ==
    /\ ml_pc = "start"
    /\ ml_progress' = ml_progress \o StartProgress(ml_env)
    /\ LET mapped == IF ml_env.jq_ok THEN LoadMapped(ml_env) ELSE <<>>
           jm     == SelectSeq(mapped, IsMapped)
       IN  IF jm = <<>>
           THEN /\ ml_finished' = Append(ml_finished, <<get_mock_mainline_stocks, "mock">>)
                /\ ml_pc' = "done"
                /\ jqdata_mapped' = jqdata_mapped
           ELSE /\ ml_finished' = ml_finished
                /\ ml_pc' = "loop"
                /\ jqdata_mapped' = jm
    /\ UNCHANGED <<ml_env, max_mainlines, max_stocks_per_mainline, ml_stop, ml_i,
                   mainline_stocks, ml_all_stocks>>
    /\ UNCHANGED <<rankVars, techVars, panelVars, runVars, ffVars>>

\* line 150
MlTotal == Min(Len(jqdata_mapped), max_mainlines)

\* faulty variant of MlLoopHead: the stop flag is not looked at
MlLoopHead_IgnoresStop ==
    /\ ml_pc = "loop"
    /\ ml_i < MlTotal
    /\ ml_progress' = Append(ml_progress, 20 + (65 * (ml_i + 1)) \div MlTotal)
    /\ ml_pc' = "body"
    /\ UNCHANGED <<ml_env, max_mainlines, max_stocks_per_mainline, ml_stop, jqdata_mapped,
                   ml_i, mainline_stocks, ml_all_stocks, ml_finished>>
    /\ UNCHANGED <<rankVars, techVars, panelVars, runVars, ffVars>>

\* lines 151-164: the head of the loop takes the next mainline unless _stop
\* is set, and emits the progress of the iteration
MlLoopHead ==
    /\ ml_pc = "loop"
    /\ ml_i < MlTotal
    /\ ml_progress' = Append(ml_progress, 20 + (65 * (ml_i + 1)) \div MlTotal)
    /\ ~ml_stop
    /\ ml_pc' = "body"
    /\ UNCHANGED <<ml_env, max_mainlines, max_stocks_per_mainline, ml_stop, jqdata_mapped,
                   ml_i, mainline_stocks, ml_all_stocks, ml_finished>>
    /\ UNCHANGED <<rankVars, techVars, panelVars, runVars, ffVars>>

\* lines 155-188: the body of the loop on the mainline taken
MlIteration ==
    /\ ml_pc = "body"
    /\ ml_progress' = ml_progress
    /\ mainline_stocks' = MainlineStocksOf(jqdata_mapped[ml_i + 1], max_stocks_per_mainline)
    /\ ml_all_stocks' = ml_all_stocks \o mainline_stocks'
    /\ ml_i' = ml_i + 1
    /\ ml_pc' = "loop"
    /\ UNCHANGED <<ml_env, max_mainlines, max_stocks_per_mainline, ml_stop,
                   jqdata_mapped, ml_finished>>
    /\ UNCHANGED <<rankVars, techVars, panelVars, runVars, ffVars>>

\* lines 152-153 and 190-197: the loop ends or breaks on _stop; emit
MlFinish ==
    /\ ml_pc = "loop"
    /\ ml_i = MlTotal \/ ml_stop
    /\ ml_finished' = Append(ml_finished, <<deduplicate_and_sort(ml_all_stocks), "JQData">>)
    /\ ml_progress' = ml_progress \o <<90, 100>>
    /\ ml_pc' = "done"
    /\ UNCHANGED <<ml_env, max_mainlines, max_stocks_per_mainline, ml_stop, jqdata_mapped,
                   ml_i, mainline_stocks, ml_all_stocks>>
    /\ UNCHANGED <<rankVars, techVars, panelVars, runVars, ffVars>>

\* lines 199-202: an exception inside an iteration ends the run with the mock list
MlRaise ==
    /\ ml_pc = "body"
    /\ ml_progress' = Append(ml_progress, 100)
    /\ ml_finished' = Append(ml_finished, <<get_mock_mainline_stocks, "mock">>)
    /\ ml_pc' = "done"
    /\ UNCHANGED <<ml_env, max_mainlines, max_stocks_per_mainline, ml_stop, jqdata_mapped,
                   ml_i, mainline_stocks, ml_all_stocks>>
    /\ UNCHANGED <<rankVars, techVars, panelVars, runVars, ffVars>>

\* MainlineScanWorker.stop, called from another thread while run is underway
MlStopCalled ==
    /\ ml_pc \in {"start", "loop", "body"}
    /\ ml_progress' = ml_progress
    /\ ~ml_stop
    /\ ml_stop' = TRUE
    /\ UNCHANGED <<ml_pc, ml_env, max_mainlines, max_stocks_per_mainline, jqdata_mapped,
                   ml_i, mainline_stocks, ml_all_stocks, ml_finished>>
    /\ UNCHANGED <<rankVars, techVars, panelVars, runVars, ffVars>>

MlNext ==
    \/ MlStart
    \/ MlLoopHead
    \/ MlIteration
    \/ MlFinish
    \/ MlRaise
    \/ MlStopCalled

(***************************************************************************)
(* StockPoolPanel: the workers it starts and what they deliver.            *)
(***************************************************************************)
Tabs == {"mainline", "tech", "etf", "external"}

OverviewKeys == {"overview_mainline", "overview_tech", "overview_etf", "overview_external"}

\* the keys of self.workers, and the attribute self.mainline_worker
WorkerKeys == OverviewKeys \cup Tabs \cup {"mainline_worker"}

\* the class of the worker stored under a key
ClassOf(key) ==
    CASE key \in {"overview_mainline", "mainline"} -> "MainlineScanWorker"
      [] key \in {"overview_tech", "tech"} -> "TechScanWorker"
      [] key \in {"overview_etf", "etf"} -> "ETFScanWorker"
      [] key \in {"overview_external", "external"} -> "ExternalParseWorker"
      [] OTHER -> "CompositeWorker"

KeyNo(key) ==
    CASE key = "overview_mainline" -> 1 [] key = "overview_tech" -> 2
      [] key = "overview_etf" -> 3 [] key = "overview_external" -> 4
      [] key = "mainline" -> 5 [] key = "tech" -> 6 [] key = "etf" -> 7
      [] key = "external" -> 8 [] OTHER -> 9

\* the code of record j of the list the n-th worker of a key delivers: the
\* lists of two workers share no code
PanelCode(w, j) == ToString(600000 + 1000 * KeyNo(w.key) + 100 * w.n + j)

\* an entry of the list ETFScanWorker delivers
Etf(code, name, change_5d, amount) ==
    [code |-> code, name |-> name, change_5d |-> change_5d, amount |-> amount]

\* the lists worker w may deliver with its finished signal, by class:
\* MainlineScanWorker nothing or one record (its records have a code);
\* TechScanWorker and ETFScanWorker one entry; ExternalParseWorker its
\* example list, or the parsed file: a record with a name only
Deliveries(w) ==
    CASE ClassOf(w.key) = "MainlineScanWorker" ->
            {[j \in 1..n |-> Stock(PanelCode(w, j), "M" \o PanelCode(w, j), "mainline",
                                   "JQData", 2, 70, 10)] : n \in {0, 1}}
      [] ClassOf(w.key) = "TechScanWorker" ->
            {<<Stock(PanelCode(w, 1), "T" \o PanelCode(w, 1), "tech_breakout",
                     "AKShare", 2, 0, 99)>>}
      [] ClassOf(w.key) = "ETFScanWorker" ->
            {<<Etf(PanelCode(w, 1), "E" \o PanelCode(w, 1), 85, 12)>>}
      [] ClassOf(w.key) = "ExternalParseWorker" ->
            {<<Stock("600519", "Kweichow", "broker", "example", 3, 0, 0)>>,
             <<Stock("", "X" \o PanelCode(w, 1), "broker", "file", 3, 0, 0)>>}
      [] OTHER -> {<<>>}

\* lines 1109-1120: the record _on_overview_etf_done builds of an ETF entry
EtfToStock(etf, source) ==
    Stock(etf.code, etf.name, "etf", source, 3, 0, etf.change_5d)

(***************************************************************************)
(* StockPoolPanel: state after construction, and the clicks.               *)
(***************************************************************************)
\* __init__ and the _create_*_tab methods: no worker, empty tables, hidden
\* progress bars
PanelIdle ==
    /\ workers = [k \in WorkerKeys |-> 0]
    /\ threads = {}
    /\ qt_queue = <<>>
    /\ clicks = 0
    /\ scan_choice = "none"
    /\ scan_results = <<>>
    /\ overview_status = ""
    /\ overview_source = <<>>
    /\ tab_table = [t \in Tabs |-> <<>>]
    /\ tab_progress = [t \in Tabs |-> FALSE]
    /\ tab_status = [t \in Tabs |-> ""]
    /\ code_preview = {}
    /\ signal_dialog = "none"
    /\ strategy_file = <<>>

\* self.workers[key] = Worker(); connect; start(): a new thread runs
Start(key) ==
    /\ workers' = [workers EXCEPT ![key] = workers[key] + 1]
    /\ threads' = threads \cup {[key |-> key, n |-> workers[key] + 1]}

\* _start_mainline_scan .. _start_external_scan: the status line, then Start
StartScan(key) ==
    /\ overview_status' = "scanning " \o key
    /\ Start(key)

\* faulty variant of DoScanAll: the scan-all button is not disabled
DoScanAll_ButtonStaysEnabled ==
    /\ overview_table' = <<>>
    /\ all_stocks' = <<>>
    /\ overview_progress_visible' = TRUE
    /\ scan_all_btn' = TRUE
    /\ overview_source' = <<>>
    /\ scan_results' = <<>>
    /\ StartScan("overview_mainline")

\* _do_scan_all
DoScanAll ==
    /\ overview_table' = <<>>
    /\ all_stocks' = <<>>
    /\ overview_progress_visible' = TRUE
    /\ scan_all_btn' = FALSE
    /\ overview_source' = <<>>
    /\ scan_results' = <<>>
    /\ StartScan("overview_mainline")

\* the parts of the state no handler of the overview chain touches
TabsUnchanged == UNCHANGED <<tab_table, tab_progress, tab_status, code_preview, signal_dialog,
                            strategy_file>>

\* the variables of the dedup-and-rank run and of the worker runs
RunsUnchanged ==
    UNCHANGED <<rank_pc, stocks, unique_stocks, techVars, mlVars, runVars, ffVars>>

\* _scan_all, score data found (lines 977-983): a status line (the data is
\* older than 24 hours, or not), then the scan
ScanAllWithData(stale) ==
    /\ scan_all_btn
    /\ clicks < MaxClicks
    /\ clicks' = clicks + 1
    /\ scan_choice' = "data"
    /\ DoScanAll
    /\ UNCHANGED <<unique, qt_queue>>
    /\ TabsUnchanged
    /\ RunsUnchanged

\* _scan_all, no score data, the user answers No (lines 962-976, 983): the
\* status line announces that the mainline source is skipped, then the scan
ScanAllDeclined ==
    /\ scan_all_btn
    /\ clicks < MaxClicks
    /\ clicks' = clicks + 1
    /\ scan_choice' = "declined"
    /\ DoScanAll
    /\ UNCHANGED <<unique, qt_queue>>
    /\ TabsUnchanged
    /\ RunsUnchanged

\* faulty variant of ScanAllIdentify: the button is left enabled while the
\* identification worker runs
ScanAllIdentify_ButtonEnabled ==
    /\ scan_all_btn
    /\ clicks < MaxClicks
    /\ clicks' = clicks + 1
    /\ scan_choice' = "identify"
    /\ overview_status' = "identifying"
    /\ overview_progress_visible' = TRUE
    /\ scan_all_btn' = TRUE
    /\ Start("mainline_worker")
    /\ UNCHANGED <<all_stocks, unique, overview_table, qt_queue, scan_results,
                   overview_source>>
    /\ TabsUnchanged
    /\ RunsUnchanged

\* _scan_all, no score data, the user answers Yes (lines 962-974), and
\* _run_mainline_identification
ScanAllIdentify ==
    /\ scan_all_btn
    /\ clicks < MaxClicks
    /\ clicks' = clicks + 1
    /\ scan_choice' = "identify"
    /\ overview_status' = "identifying"
    /\ overview_progress_visible' = TRUE
    /\ scan_all_btn' = FALSE
    /\ Start("mainline_worker")
    /\ UNCHANGED <<all_stocks, unique, overview_table, qt_queue, scan_results,
                   overview_source>>
    /\ TabsUnchanged
    /\ RunsUnchanged

\* _scan_single(tab) (lines 1316-1380): the table is emptied, the progress
\* bar shown, a worker stored under the key of the tab and started. (On the
\* mainline tab without score data the method shows a warning and returns,
\* lines 1307-1314: a step that changes nothing.)
ScanSingle(tab) ==
    /\ clicks < MaxClicks
    /\ clicks' = clicks + 1
    /\ tab_table' = [tab_table EXCEPT ![tab] = <<>>]
    /\ tab_progress' = [tab_progress EXCEPT ![tab] = TRUE]
    /\ tab_status' = IF tab = "mainline" THEN [tab_status EXCEPT ![tab] = "scanning"]
                     ELSE tab_status
    /\ Start(tab)
    /\ UNCHANGED <<qt_queue, scan_choice, scan_results, overview_status, overview_source,
                   code_preview,
                   signal_dialog, strategy_file>>
    /\ UNCHANGED <<rankVars, techVars, mlVars, runVars, ffVars>>

(***************************************************************************)
(* StockPoolPanel: the workers end, and the handlers of their signals.     *)
(* A signal emitted in a worker thread is queued; the UI thread runs the   *)
(* connected handlers one at a time, in the order of emission.             *)
(***************************************************************************)
Signal(w, signal, list) == [key |-> w.key, n |-> w.n, signal |-> signal, list |-> list]

\* run() of a scan worker ends: self.finished.emit(list, source)
WorkerEmits ==
    \E w \in threads :
        /\ w.key # "mainline_worker"
        /\ \E list \in Deliveries(w) :
              qt_queue' = Append(qt_queue, Signal(w, "finished", list))
        /\ threads' = threads \ {w}
        /\ UNCHANGED <<workers, clicks, scan_choice, scan_results, overview_status,
                       overview_source, tab_table, tab_progress, tab_status, code_preview,
                   signal_dialog, strategy_file>>
        /\ UNCHANGED <<rankVars, techVars, mlVars, runVars, ffVars>>

\* run() of the CompositeWorker ends: it emits finished or error
CompositeEnds ==
    \E w \in threads :
        /\ w.key = "mainline_worker"
        /\ \E signal \in {"finished", "error"} :
              qt_queue' = Append(qt_queue, Signal(w, signal, <<>>))
        /\ threads' = threads \ {w}
        /\ UNCHANGED <<workers, clicks, scan_choice, scan_results, overview_status,
                       overview_source, tab_table, tab_progress, tab_status, code_preview,
                   signal_dialog, strategy_file>>
        /\ UNCHANGED <<rankVars, techVars, mlVars, runVars, ffVars>>

\* the signal the UI thread handles next
Pending(key, signal) ==
    /\ qt_queue # <<>>
    /\ Head(qt_queue).key = key
    /\ Head(qt_queue).signal = signal

\* _on_mainline_identification_done: save, status line, _do_scan_all
OnMainlineIdentificationDone ==
    /\ Pending("mainline_worker", "finished")
    /\ qt_queue' = Tail(qt_queue)
    /\ DoScanAll
    /\ UNCHANGED <<unique, clicks, scan_choice>>
    /\ TabsUnchanged
    /\ RunsUnchanged

\* faulty variant of OnMainlineIdentificationError: the button is enabled
\* and stays so
OnMainlineIdentificationError_ButtonEnabled ==
    /\ Pending("mainline_worker", "error")
    /\ qt_queue' = Tail(qt_queue)
    /\ DoScanAll_ButtonStaysEnabled
    /\ UNCHANGED <<unique, clicks, scan_choice>>
    /\ TabsUnchanged
    /\ RunsUnchanged

\* _on_mainline_identification_error: the button is enabled and the progress
\* bar hidden, then _do_scan_all disables and shows them again
OnMainlineIdentificationError ==
    /\ Pending("mainline_worker", "error")
    /\ qt_queue' = Tail(qt_queue)
    /\ DoScanAll
    /\ UNCHANGED <<unique, clicks, scan_choice>>
    /\ TabsUnchanged
    /\ RunsUnchanged

\* faulty variant of OnOverviewMainlineDone: the handler starts the ETF scan
\* along with the technical scan
OnOverviewMainlineDone_FanOut ==
    /\ Pending("overview_mainline", "finished")
    /\ qt_queue' = Tail(qt_queue)
    /\ all_stocks' = all_stocks \o Head(qt_queue).list
    /\ scan_results' = Append(scan_results, Head(qt_queue).list)
    /\ overview_source' = <<"mainline">>
    /\ overview_status' = "scanning overview_tech"
    /\ workers' = [workers EXCEPT !["overview_tech"] = @ + 1, !["overview_etf"] = @ + 1]
    /\ threads' = threads \cup {[key |-> "overview_tech", n |-> workers["overview_tech"] + 1],
                                [key |-> "overview_etf", n |-> workers["overview_etf"] + 1]}
    /\ UNCHANGED <<unique, overview_table, scan_all_btn, overview_progress_visible, clicks,
                   scan_choice>>
    /\ TabsUnchanged
    /\ RunsUnchanged

\* _on_overview_mainline_done, then _start_tech_scan
OnOverviewMainlineDone ==
    /\ Pending("overview_mainline", "finished")
    /\ qt_queue' = Tail(qt_queue)
    /\ all_stocks' = all_stocks \o Head(qt_queue).list
    /\ scan_results' = Append(scan_results, Head(qt_queue).list)
    /\ overview_source' = <<"mainline">>
    /\ StartScan("overview_tech")
    /\ UNCHANGED <<unique, overview_table, scan_all_btn, overview_progress_visible, clicks,
                   scan_choice>>
    /\ TabsUnchanged
    /\ RunsUnchanged

\* faulty variant of OnOverviewTechDone: the list is replaced, not extended
OnOverviewTechDone_Replaces ==
    /\ Pending("overview_tech", "finished")
    /\ qt_queue' = Tail(qt_queue)
    /\ all_stocks' = Head(qt_queue).list
    /\ scan_results' = Append(scan_results, Head(qt_queue).list)
    /\ overview_source' = Append(overview_source, "tech")
    /\ StartScan("overview_etf")
    /\ UNCHANGED <<unique, overview_table, scan_all_btn, overview_progress_visible, clicks,
                   scan_choice>>
    /\ TabsUnchanged
    /\ RunsUnchanged

\* _on_overview_tech_done, then _start_etf_scan
OnOverviewTechDone ==
    /\ Pending("overview_tech", "finished")
    /\ qt_queue' = Tail(qt_queue)
    /\ all_stocks' = all_stocks \o Head(qt_queue).list
    /\ scan_results' = Append(scan_results, Head(qt_queue).list)
    /\ overview_source' = Append(overview_source, "tech")
    /\ StartScan("overview_etf")
    /\ UNCHANGED <<unique, overview_table, scan_all_btn, overview_progress_visible, clicks,
                   scan_choice>>
    /\ TabsUnchanged
    /\ RunsUnchanged

\* faulty variant of OnOverviewEtfDone: the external scan is not started
OnOverviewEtfDone_StopsChain ==
    /\ Pending("overview_etf", "finished")
    /\ qt_queue' = Tail(qt_queue)
    /\ LET etfs == Head(qt_queue).list IN
       /\ all_stocks' = all_stocks \o [i \in 1..Len(etfs) |-> EtfToStock(etfs[i], "AKShare")]
       /\ scan_results' = Append(scan_results, etfs)
    /\ overview_source' = Append(overview_source, "etf")
    /\ UNCHANGED <<unique, overview_table, scan_all_btn, overview_progress_visible, clicks,
                   scan_choice, overview_status, workers, threads>>
    /\ TabsUnchanged
    /\ RunsUnchanged

\* _on_overview_etf_done: a record per ETF entry, then _start_external_scan
OnOverviewEtfDone ==
    /\ Pending("overview_etf", "finished")
    /\ qt_queue' = Tail(qt_queue)
    /\ LET etfs == Head(qt_queue).list IN
       /\ all_stocks' = all_stocks \o [i \in 1..Len(etfs) |-> EtfToStock(etfs[i], "AKShare")]
       /\ scan_results' = Append(scan_results, etfs)
    /\ overview_source' = Append(overview_source, "etf")
    /\ StartScan("overview_external")
    /\ UNCHANGED <<unique, overview_table, scan_all_btn, overview_progress_visible, clicks,
                   scan_choice>>
    /\ TabsUnchanged
    /\ RunsUnchanged

\* _on_overview_external_done as the last handler of the chain
OnOverviewExternalSignal ==
    /\ Pending("overview_external", "finished")
    /\ qt_queue' = Tail(qt_queue)
    /\ MergeAndShow(Head(qt_queue).list)
    /\ scan_results' = Append(scan_results, Head(qt_queue).list)
    /\ overview_status' = "scan complete"
    /\ overview_source' = Append(overview_source, "external")
    /\ UNCHANGED <<workers, threads, clicks, scan_choice>>
    /\ TabsUnchanged
    /\ RunsUnchanged

\* faulty variant of OnSingleDone: the signal of a worker that is no longer
\* the one stored under the key of the tab is dropped
OnSingleDone_LatestOnly(tab) ==
    /\ tab \in {"mainline", "tech", "external"}
    /\ Pending(tab, "finished")
    /\ qt_queue' = Tail(qt_queue)
    /\ IF Head(qt_queue).n = workers[tab]
       THEN /\ tab_progress' = [tab_progress EXCEPT ![tab] = FALSE]
            /\ tab_status' = [tab_status EXCEPT ![tab] = "done"]
            /\ tab_table' = [tab_table EXCEPT ![tab] = Head(qt_queue).list]
       ELSE UNCHANGED <<tab_progress, tab_status, tab_table>>
    /\ UNCHANGED <<workers, threads, clicks, scan_choice, scan_results, overview_status,
                   overview_source, code_preview,
                   signal_dialog, strategy_file>>
    /\ UNCHANGED <<rankVars, techVars, mlVars, runVars, ffVars>>

\* the lambdas _scan_single connects to finished (lines 1325-1331, 1343-1349,
\* 1373-1379): hide the progress bar, status line, fill the table
OnSingleDone(tab) ==
    /\ tab \in {"mainline", "tech", "external"}
    /\ Pending(tab, "finished")
    /\ qt_queue' = Tail(qt_queue)
    /\ tab_progress' = [tab_progress EXCEPT ![tab] = FALSE]
    /\ tab_status' = [tab_status EXCEPT ![tab] = "done"]
    /\ tab_table' = [tab_table EXCEPT ![tab] = Head(qt_queue).list]
    /\ UNCHANGED <<workers, threads, clicks, scan_choice, scan_results, overview_status,
                   overview_source, code_preview,
                   signal_dialog, strategy_file>>
    /\ UNCHANGED <<rankVars, techVars, mlVars, runVars, ffVars>>

\* _on_etf_single_done
OnEtfSingleDone ==
    /\ Pending("etf", "finished")
    /\ qt_queue' = Tail(qt_queue)
    /\ tab_progress' = [tab_progress EXCEPT !["etf"] = FALSE]
    /\ tab_status' = [tab_status EXCEPT !["etf"] = "done"]
    /\ tab_table' = [tab_table EXCEPT !["etf"] = Head(qt_queue).list]
    /\ UNCHANGED <<workers, threads, clicks, scan_choice, scan_results, overview_status,
                   overview_source, code_preview,
                   signal_dialog, strategy_file>>
    /\ UNCHANGED <<rankVars, techVars, mlVars, runVars, ffVars>>

RECURSIVE KSubsets(_, _)
\* the subsets of S that have k elements
KSubsets(S, k) ==
    IF k = 0 THEN {{}}
    ELSE UNION {{T \cup {x} : T \in KSubsets(S \ {x}, k - 1)} : x \in S}

\* lines 1403-1408: the texts of column 1 of the rows of the mainline, tech
\* and external tables (_fill_stock_table writes str(stock.get('code', '')))
TableCodes ==
    UNION {{tab_table[t][i].code : i \in 1..Len(tab_table[t])} :
              t \in {"mainline", "tech", "external"}}

\* faulty variant of GenerateCode: without a code the script is written
\* with an empty list
GenerateCode_WritesEmpty ==
    /\ \E dropped \in KSubsets(TableCodes,
                                IF Cardinality(TableCodes) > CodeCap
                                THEN Cardinality(TableCodes) - CodeCap ELSE 0) :
            /\ code_preview' = TableCodes \ dropped
            /\ strategy_file' = <<TableCodes \ dropped>>
            /\ signal_dialog' = "information"
    /\ UNCHANGED <<workers, threads, qt_queue, clicks, scan_choice, scan_results,
                   overview_status, overview_source, tab_table, tab_progress, tab_status>>
    /\ UNCHANGED <<rankVars, techVars, mlVars, runVars, ffVars>>

\* _generate_code: no code, a warning and nothing else; otherwise
\* list(codes)[:20] goes into the script, which is shown in the preview and
\* written to the file, and an information box follows. The order of
\* list(set) is not fixed, so of more than 20 codes any 20 may be the ones
\* kept; the list is held as the set of its entries
GenerateCode ==
    /\ IF TableCodes = {}
       THEN /\ signal_dialog' = "warning"
            /\ UNCHANGED <<code_preview, strategy_file>>
       ELSE \E dropped \in KSubsets(TableCodes,
                                    IF Cardinality(TableCodes) > CodeCap
                                    THEN Cardinality(TableCodes) - CodeCap ELSE 0) :
                /\ code_preview' = TableCodes \ dropped
                /\ strategy_file' = <<TableCodes \ dropped>>
                /\ signal_dialog' = "information"
    /\ UNCHANGED <<workers, threads, qt_queue, clicks, scan_choice, scan_results,
                   overview_status, overview_source, tab_table, tab_progress, tab_status>>
    /\ UNCHANGED <<rankVars, techVars, mlVars, runVars, ffVars>>

PanelNext ==
    \/ \E stale \in BOOLEAN : ScanAllWithData(stale)
    \/ ScanAllDeclined
    \/ ScanAllIdentify
    \/ \E tab \in Tabs : ScanSingle(tab)
    \/ WorkerEmits
    \/ CompositeEnds
    \/ OnMainlineIdentificationDone
    \/ OnMainlineIdentificationError
    \/ OnOverviewMainlineDone
    \/ OnOverviewTechDone
    \/ OnOverviewEtfDone
    \/ OnOverviewExternalSignal
    \/ \E tab \in Tabs : OnSingleDone(tab)
    \/ OnEtfSingleDone
    \/ GenerateCode

(***************************************************************************)
(* ETFScanWorker.run and ExternalParseWorker.run as processes.             *)
(***************************************************************************)
get_mock_etfs ==
    << Etf("159915", "ChiNext ETF", 85, 1256), Etf("512480", "Chip ETF", 125, 852) >>

get_mock_external_stocks ==
    << Stock("600519", "Kweichow", "broker", "example", 3, 0, 0) >>

\* a row of ak.fund_etf_spot_em(): code, name, change (in tenths of a percent)
\* and traded amount in tenths of 1e8 yuan (0 where the cell is empty)
EtfRow(code, name, change, amount) ==
    [code |-> code, name |-> name, change |-> change, amount |-> amount]

\* lines 654-667: the rows by change descending, the first 30 of them, those
\* with an amount of at least 1e8 yuan as entries
EtfEntries(rows) ==
    LET df_sorted == StableSort(rows, [i \in 1..Len(rows) |-> <<-rows[i].change>>])
        head == Take(df_sorted, EtfHead)
        Active(r) == ~(r.amount < EtfMinAmount)
        kept == SelectSeq(head, Active)
    IN  [i \in 1..Len(kept) |-> Etf(kept[i].code, kept[i].name, kept[i].change,
                                    kept[i].amount)]

\* faulty variant of EtfScan: the failed fetch is passed on as an empty list
EtfScan_NoFallback ==
    /\ etf_pc = "fetch"
    /\ etf_finished' = Append(etf_finished,
                              IF ~etf_market.ok \/ etf_market.rows = <<>>
                              THEN <<<<>>, "mock">>
                              ELSE <<Take(EtfEntries(etf_market.rows), EtfCap), "AKShare">>)
    /\ etf_pc' = "done"
    /\ UNCHANGED <<etf_market, ext_pc, ext_pool, ext_finished>>
    /\ UNCHANGED <<rankVars, techVars, mlVars, panelVars, ffVars>>

\* lines 637-671: fetch; None or an empty frame ends the run with the mock
\* list; otherwise filter, cut to 20, emit
EtfScan ==
    /\ etf_pc = "fetch"
    /\ etf_finished' = Append(etf_finished,
                              IF ~etf_market.ok \/ etf_market.rows = <<>>
                              THEN <<get_mock_etfs, "mock">>
                              ELSE <<Take(EtfEntries(etf_market.rows), EtfCap), "AKShare">>)
    /\ etf_pc' = "done"
    /\ UNCHANGED <<etf_market, ext_pc, ext_pool, ext_finished>>
    /\ UNCHANGED <<rankVars, techVars, mlVars, panelVars, ffVars>>

\* lines 673-675: an exception anywhere in the run (the import, the fetch, a
\* cell float() cannot convert) ends it with the mock list
EtfRaise ==
    /\ etf_pc = "fetch"
    /\ etf_finished' = Append(etf_finished, <<get_mock_etfs, "mock">>)
    /\ etf_pc' = "done"
    /\ UNCHANGED <<etf_market, ext_pc, ext_pool, ext_finished>>
    /\ UNCHANGED <<rankVars, techVars, mlVars, panelVars, ffVars>>

\* lines 696-711: the record built of a parsed stock; code and name are
\* taken as they are
ExternalRecord(s) == Stock(s.code, s.name, s.source, "file", s.priority, 0, 0)

\* lines 687-717: the parsed pool as records; no pool, or no stock in it,
\* ends the run with the example list
ExtParse ==
    /\ ext_pc = "parse"
    /\ ext_finished' = Append(ext_finished,
                              IF ext_pool.ok /\ ext_pool.stocks # <<>>
                              THEN <<[i \in 1..Len(ext_pool.stocks) |->
                                         ExternalRecord(ext_pool.stocks[i])], "file">>
                              ELSE <<get_mock_external_stocks, "example">>)
    /\ ext_pc' = "done"
    /\ UNCHANGED <<ext_pool, etf_pc, etf_market, etf_finished>>
    /\ UNCHANGED <<rankVars, techVars, mlVars, panelVars, ffVars>>

\* lines 712-717: an exception (the import, the parser) is logged and the
\* run ends with the example list
ExtRaise ==
    /\ ext_pc = "parse"
    /\ ext_finished' = Append(ext_finished, <<get_mock_external_stocks, "example">>)
    /\ ext_pc' = "done"
    /\ UNCHANGED <<ext_pool, etf_pc, etf_market, etf_finished>>
    /\ UNCHANGED <<rankVars, techVars, mlVars, panelVars, ffVars>>

(***************************************************************************)
(* Inputs of ETFScanWorker and ExternalParseWorker.                        *)
(***************************************************************************)
AmountGrid == <<0, 9, 10, 1256>>

\* row i of the frame of seed s: the changes of one frame are all different
EtfFrameRow(i, s) ==
    EtfRow("51" \o ToString(1000 + i), "ETF" \o ToString(i), ((i * 7) % 37) * 3 - 20,
           AmountGrid[((s + i) % Len(AmountGrid)) + 1])

EtfFrames ==
    {[i \in 1..n |-> EtfFrameRow(i, s)] : n \in {0, 1, 2, MaxEtfRows}, s \in 0..3}

EtfAnswers ==
    {[ok |-> FALSE, rows |-> <<>>]} \cup {[ok |-> TRUE, rows |-> r] : r \in EtfFrames}

\* a stock of the parsed pool: with a code, or with a name only
ParsedStocks ==
    {[code |-> c, name |-> n, source |-> "broker", priority |-> p] :
        c \in {"", "600000"}, n \in {"Alpha", "Beta"}, p \in {1, 3}}

ExternalPools ==
    {[ok |-> FALSE, stocks |-> <<>>]}
    \cup {[ok |-> TRUE, stocks |-> l] :
            l \in UNION {[1..n -> ParsedStocks] : n \in 0..MaxLen}}

RunIdle ==
    /\ etf_pc = "idle"
    /\ etf_market = [ok |-> FALSE, rows |-> <<>>]
    /\ etf_finished = <<>>
    /\ ext_pc = "idle"
    /\ ext_pool = [ok |-> FALSE, stocks |-> <<>>]
    /\ ext_finished = <<>>

EtfInit ==
    /\ etf_pc = "fetch"
    /\ etf_market \in EtfAnswers
    /\ etf_finished = <<>>
    /\ ext_pc = "idle"
    /\ ext_pool = [ok |-> FALSE, stocks |-> <<>>]
    /\ ext_finished = <<>>

ExtInit ==
    /\ ext_pc = "parse"
    /\ ext_pool \in ExternalPools
    /\ ext_finished = <<>>
    /\ etf_pc = "idle"
    /\ etf_market = [ok |-> FALSE, rows |-> <<>>]
    /\ etf_finished = <<>>

(***************************************************************************)
(* gui/widgets/factor_filter_tab.py: FactorFilterWorker and the tab.       *)
(***************************************************************************)
\* an entry of the candidate pool, with the keys the worker reads
Candidate(mainline, jq_code, mainline_score) ==
    [mainline |-> mainline, jq_code |-> jq_code, mainline_score |-> mainline_score]

\* lines 640-644: the default mainlines of _start_filter
DefaultCandidates ==
    << Candidate("AI", "SC0363", 85), Candidate("Energy", "SC0066", 80),
       Candidate("Chips", "SC0353", 78) >>

\* six concept codes with 21 constituents each, disjoint from one code to
\* the next; the list of the last names its first constituent twice
LongCodes == {"SC200" \o ToString(k) : k \in 1..6}

LongConstituents(jq_code) ==
    LET k == CHOOSE n \in 1..6 : jq_code = "SC200" \o ToString(n)
    IN  [i \in 1..21 |-> IF k = 6 /\ i = 3 THEN "L601"
                         ELSE "L" \o ToString(100 * k + i)]

\* a pool of six mainlines, one per long concept code
LongCandidates ==
    [k \in 1..6 |-> Candidate("M" \o ToString(k), "SC200" \o ToString(k), 50 + 5 * k)]

\* what jq.get_concept_stocks / get_industry_stocks hold for a code: a long
\* list, a list that overlaps it, nothing
JQConstituents(jq_code) ==
    CASE jq_code = "SC0363" -> [i \in 1..22 |-> "S" \o ToString(100 + i)]
      [] jq_code = "SC0066" -> [i \in 1..4 |-> "S" \o ToString(118 + i)]
      [] jq_code \in LongCodes -> LongConstituents(jq_code)
      [] OTHER -> <<>>

\* lines 192-203: the answer of one query under the environment: "raise"
\* (logged, the code gets no entry), or the list
FetchAnswer(env, jq_code) ==
    IF env.fetch = "raise" \/ (env.fetch = "first raises" /\ jq_code = "SC0363")
    THEN [ok |-> FALSE, stocks |-> <<>>]
    ELSE IF env.fetch = "empty" THEN [ok |-> TRUE, stocks |-> <<>>]
    ELSE [ok |-> TRUE, stocks |-> JQConstituents(jq_code)]

\* faulty variant of FetchConstituents: the lists are stored whole
FetchConstituents_Uncut(env, mainlines) ==
    LET jq_codes == {mainlines[i].jq_code : i \in 1..Len(mainlines)} \ {""}
        answered == {c \in jq_codes : FetchAnswer(env, c).ok
                                      /\ FetchAnswer(env, c).stocks # <<>>}
    IN  [c \in answered |-> FetchAnswer(env, c).stocks]

\* lines 180-203: stocks_by_mainline, an entry per code whose query answered
\* a non-empty list, cut to 20
FetchConstituents(env, mainlines) ==
    LET jq_codes == {mainlines[i].jq_code : i \in 1..Len(mainlines)} \ {""}
        answered == {c \in jq_codes : FetchAnswer(env, c).ok
                                      /\ FetchAnswer(env, c).stocks # <<>>}
    IN  [c \in answered |-> Take(FetchAnswer(env, c).stocks, PerMainlineCap)]

RECURSIVE MergeCodes(_, _, _, _)
\* lines 216-223: the loop over the stored list of one mainline from entry j
\* on; a code the map holds already is passed over
MergeCodes(j, m, list, info) ==
    IF j > Len(list) THEN m
    ELSE IF list[j] \in DOMAIN m.map
    THEN MergeCodes(j + 1, m, list, info)
    ELSE MergeCodes(j + 1,
                    [codes |-> Append(m.codes, list[j]),
                     map |-> [c \in DOMAIN m.map \cup {list[j]} |->
                                 IF c \in DOMAIN m.map THEN m.map[c] ELSE info]],
                    list, info)

RECURSIVE MergeFrom(_, _, _, _)
\* lines 210-223: the loop over self.mainlines from entry i on; acc is
\* all_stock_codes, map is stock_mainline_map
MergeFrom(i, acc, map, in) ==
    IF i > Len(in.mainlines) THEN [codes |-> acc, map |-> map]
    ELSE LET ml == in.mainlines[i]
             info == [mainline |-> ml.mainline, mainline_score |-> ml.mainline_score,
                      jq_code |-> ml.jq_code]
             m == IF ml.jq_code \in DOMAIN in.by_mainline
                  THEN MergeCodes(1, [codes |-> acc, map |-> map],
                                  in.by_mainline[ml.jq_code], info)
                  ELSE [codes |-> acc, map |-> map]
         IN  MergeFrom(i + 1, m.codes, m.map, in)

EmptyMap == [c \in {} |-> 0]

\* lines 240-246: what process_candidate_pool answers for the codes passed:
\* no signal, or a signal for each of the first top_n of them
FactorSignals(env, codes, map, top_n) ==
    IF env.factor = "none" THEN <<>>
    ELSE LET kept == Take(codes, top_n)
         IN  [i \in 1..Len(kept) |->
                 [code |-> kept[i], combined_score |-> map[kept[i]].mainline_score,
                  mainline |-> map[kept[i]].mainline]]

\* lines 256-264: the simplified list
SimplifiedResults(codes, map, top_n) ==
    LET kept == Take(codes, top_n)
    IN  [i \in 1..Len(kept) |->
            [code |-> kept[i], mainline |-> map[kept[i]].mainline,
             mainline_score |-> map[kept[i]].mainline_score]]

\* _update_table, lines 702-711: the rows that pass the minimum score
FilteredRows(signals, min) ==
    LET BySignal(s) == s.combined_score >= min
        ByDict(s) == s.mainline_score >= min
    IN  IF signals # <<>> /\ "combined_score" \in DOMAIN signals[1]
        THEN SelectSeq(signals, BySignal)
        ELSE SelectSeq(signals, ByDict)

Status(tag, n) == [tag |-> tag, n |-> n]

\* FactorFilterTab.__init__ and _init_ui
FfIdle ==
    /\ ff_env = [fetch |-> "list", factor |-> "all"]
    /\ jq_client = FALSE
    /\ min_score = DefaultMinScore
    /\ ff_pc = "none"
    /\ ff_mainlines = <<>>
    /\ ff_top_n = DefaultTopN
    /\ stocks_by_mainline = EmptyMap
    /\ all_stock_codes = <<>>
    /\ stock_mainline_map = EmptyMap
    /\ ff_emitted = <<>>
    /\ ff_queue = <<>>
    /\ ff_runs = 0
    /\ filter_btn = TRUE
    /\ ff_progress_visible = FALSE
    /\ ff_status = Status("", 0)
    /\ current_signals = <<>>
    /\ ff_table = <<>>
    /\ pool_stocks = <<>>
    /\ ff_terminating = FALSE
    /\ ff_dialog = "none"

\* the pool MongoDB holds
CandidatePool ==
    {Candidate("AI", "SC0363", 85), Candidate("Energy", "SC0066", 45),
     Candidate("Robots", "SC0363", 70), Candidate("Unmapped", "", 60)}

CandidateLists ==
    UNION {[1..n -> CandidatePool] : n \in 0..MaxCandidates} \cup {LongCandidates}

\* fetch: how the constituent queries answer; factor: how the factor
\* integration answers ("unavailable": core.factors could not be imported)
FfEnvs ==
    [fetch : {"list", "empty", "raise", "first raises"},
     factor : {"all", "none", "raise", "unavailable"}]

FfInit ==
    /\ ff_env \in FfEnvs
    /\ jq_client \in BOOLEAN
    /\ min_score = DefaultMinScore
    /\ ff_pc = "none"
    /\ ff_mainlines = <<>>
    /\ ff_top_n = DefaultTopN
    /\ stocks_by_mainline = EmptyMap
    /\ all_stock_codes = <<>>
    /\ stock_mainline_map = EmptyMap
    /\ ff_emitted = <<>>
    /\ ff_queue = <<>>
    /\ ff_runs = 0
    /\ filter_btn = TRUE
    /\ ff_progress_visible = FALSE
    /\ ff_status = Status("", 0)
    /\ current_signals = <<>>
    /\ ff_table = <<>>
    /\ pool_stocks = <<>>
    /\ ff_terminating = FALSE
    /\ ff_dialog = "none"

OthersUnchanged == UNCHANGED <<rankVars, techVars, mlVars, panelVars, runVars>>

\* _start_filter, lines 621-624: no client, a warning
StartFilterNoClient ==
    /\ filter_btn
    /\ ~jq_client
    /\ ff_dialog' = "warning"
    /\ UNCHANGED <<ff_terminating, pool_stocks, ff_env, jq_client, min_score, ff_pc, ff_mainlines, ff_top_n,
                   stocks_by_mainline, all_stock_codes, stock_mainline_map, ff_emitted,
                   ff_queue, ff_runs, filter_btn, ff_progress_visible, ff_status,
                   current_signals, ff_table>>
    /\ OthersUnchanged

\* _start_filter, lines 627-647: the pool is empty and the user answers No
StartFilterDeclined ==
    /\ filter_btn
    /\ jq_client
    /\ ff_dialog' = "question"
    /\ UNCHANGED <<ff_terminating, pool_stocks, ff_env, jq_client, min_score, ff_pc, ff_mainlines, ff_top_n,
                   stocks_by_mainline, all_stock_codes, stock_mainline_map, ff_emitted,
                   ff_queue, ff_runs, filter_btn, ff_progress_visible, ff_status,
                   current_signals, ff_table>>
    /\ OthersUnchanged

\* _start_filter, lines 626-673: the candidates loaded (the default
\* mainlines when the pool is empty and the user answers Yes), terminate()
\* called on a worker that still runs, the new worker started. terminate()
\* is not followed by wait(): the thread of the old worker has ended when
\* the new one starts, or ends later
StartFilter(loaded, top_n) ==
    /\ filter_btn
    /\ jq_client
    /\ ff_runs < MaxFilterRuns
    /\ ff_runs' = ff_runs + 1
    /\ ff_mainlines' = IF loaded = <<>> THEN DefaultCandidates ELSE loaded
    /\ ff_top_n' = top_n
    /\ ff_pc' = "fetch"
    /\ stocks_by_mainline' = EmptyMap
    /\ all_stock_codes' = <<>>
    /\ stock_mainline_map' = EmptyMap
    /\ ff_emitted' = <<>>
    /\ pool_stocks' = <<>>
    /\ ff_terminating' \in (IF ff_pc = "emitted" THEN BOOLEAN ELSE {ff_terminating})
    /\ filter_btn' = FALSE
    /\ ff_progress_visible' = TRUE
    /\ ff_status' = Status("filtering", 0)
    /\ ff_dialog' = IF loaded = <<>> THEN "question" ELSE ff_dialog
    /\ UNCHANGED <<ff_env, jq_client, min_score, ff_queue, current_signals, ff_table>>
    /\ OthersUnchanged

\* FactorFilterWorker.run, lines 162-203: the constituents of each code
FfFetch ==
    /\ ff_pc = "fetch"
    /\ stocks_by_mainline' = FetchConstituents(ff_env, ff_mainlines)
    /\ ff_pc' = "merge"
    /\ UNCHANGED <<ff_terminating, pool_stocks, ff_env, jq_client, min_score, ff_mainlines, ff_top_n, all_stock_codes,
                   stock_mainline_map, ff_emitted, ff_queue, ff_runs, filter_btn,
                   ff_progress_visible, ff_status, current_signals, ff_table, ff_dialog>>
    /\ OthersUnchanged

\* the emission of a signal of the worker, queued for the UI thread: finished
\* carries a list, error a message (not modelled: the list is empty)
FfEmit(signal, payload) ==
    /\ ff_emitted' = Append(ff_emitted, [signal |-> signal, list |-> payload])
    /\ ff_queue' = Append(ff_queue, [signal |-> signal, list |-> payload])
    /\ ff_pc' = "emitted"

\* lines 206-227: the merge; no code at all is reported with the error signal
FfMerge ==
    /\ ff_pc = "merge"
    /\ LET m == MergeFrom(1, <<>>, EmptyMap,
                          [mainlines |-> ff_mainlines, by_mainline |-> stocks_by_mainline])
       IN  /\ all_stock_codes' = m.codes
           /\ stock_mainline_map' = m.map
           /\ IF m.codes = <<>>
              THEN FfEmit("error", <<>>)
              ELSE /\ ff_pc' = "score"
                   /\ UNCHANGED <<ff_emitted, ff_queue>>
    /\ UNCHANGED <<ff_terminating, pool_stocks, ff_env, jq_client, min_score, ff_mainlines, ff_top_n, stocks_by_mainline,
                   ff_runs, filter_btn, ff_progress_visible, ff_status, current_signals,
                   ff_table, ff_dialog>>
    /\ OthersUnchanged

\* faulty variant of FfScore: a failure of the scoring is answered with the
\* simplified list
FfScore_Fallback ==
    /\ ff_pc = "score"
    /\ pool_stocks' = IF ff_env.factor = "unavailable" THEN pool_stocks
                      ELSE Take(all_stock_codes, PoolCap)
    /\ IF ff_env.factor \in {"unavailable", "raise"}
       THEN FfEmit("finished",
                   SimplifiedResults(all_stock_codes, stock_mainline_map, ff_top_n))
       ELSE FfEmit("finished",
                   FactorSignals(ff_env, Take(all_stock_codes, PoolCap),
                                 stock_mainline_map, ff_top_n))
    /\ UNCHANGED <<ff_terminating, ff_env, jq_client, min_score, ff_mainlines, ff_top_n, stocks_by_mainline,
                   all_stock_codes, stock_mainline_map, ff_runs, filter_btn,
                   ff_progress_visible, ff_status, current_signals, ff_table, ff_dialog>>
    /\ OthersUnchanged

\* lines 229-272: the factor scores of the first 100 codes, or the simplified
\* list; the scoring raising is reported with the error signal
FfScore ==
    /\ ff_pc = "score"
    /\ pool_stocks' = IF ff_env.factor = "unavailable" THEN pool_stocks
                      ELSE Take(all_stock_codes, PoolCap)
    /\ IF ff_env.factor = "unavailable"
       THEN FfEmit("finished",
                   SimplifiedResults(all_stock_codes, stock_mainline_map, ff_top_n))
       ELSE IF ff_env.factor = "raise"
       THEN FfEmit("error", <<>>)
       ELSE FfEmit("finished",
                   FactorSignals(ff_env, Take(all_stock_codes, PoolCap),
                                 stock_mainline_map, ff_top_n))
    /\ UNCHANGED <<ff_terminating, ff_env, jq_client, min_score, ff_mainlines, ff_top_n, stocks_by_mainline,
                   all_stock_codes, stock_mainline_map, ff_runs, filter_btn,
                   ff_progress_visible, ff_status, current_signals, ff_table, ff_dialog>>
    /\ OthersUnchanged

\* lines 268-272: an exception outside the per-code try (the import of
\* jqdatasdk, get_available_date) is reported with the error signal
FfRaise ==
    /\ ff_pc = "fetch"
    /\ FfEmit("error", <<>>)
    /\ UNCHANGED <<ff_terminating, pool_stocks, ff_env, jq_client, min_score, ff_mainlines, ff_top_n, stocks_by_mainline,
                   all_stock_codes, stock_mainline_map, ff_runs, filter_btn,
                   ff_progress_visible, ff_status, current_signals, ff_table, ff_dialog>>
    /\ OthersUnchanged

\* run() has returned and the thread ended: isRunning() is False
FfExit ==
    /\ ff_pc = "emitted"
    /\ ff_pc' = "exited"
    /\ UNCHANGED <<ff_terminating, pool_stocks, ff_env, jq_client, min_score, ff_mainlines, ff_top_n, stocks_by_mainline,
                   all_stock_codes, stock_mainline_map, ff_emitted, ff_queue, ff_runs,
                   filter_btn, ff_progress_visible, ff_status, current_signals, ff_table,
                   ff_dialog>>
    /\ OthersUnchanged

\* _on_finished
FfOnFinished ==
    /\ ff_queue # <<>>
    /\ Head(ff_queue).signal = "finished"
    /\ ff_queue' = Tail(ff_queue)
    /\ current_signals' = Head(ff_queue).list
    /\ ff_table' = FilteredRows(Head(ff_queue).list, min_score)
    /\ filter_btn' = TRUE
    /\ ff_progress_visible' = FALSE
    /\ ff_status' = Status("done", Len(Head(ff_queue).list))
    /\ UNCHANGED <<ff_terminating, pool_stocks, ff_env, jq_client, min_score, ff_pc, ff_mainlines, ff_top_n,
                   stocks_by_mainline, all_stock_codes, stock_mainline_map, ff_emitted,
                   ff_runs, ff_dialog>>
    /\ OthersUnchanged

\* faulty variant of FfOnError: the button stays disabled
FfOnError_LeavesDisabled ==
    /\ ff_queue # <<>>
    /\ Head(ff_queue).signal = "error"
    /\ ff_queue' = Tail(ff_queue)
    /\ filter_btn' = filter_btn
    /\ ff_progress_visible' = FALSE
    /\ ff_status' = Status("failed", 0)
    /\ ff_dialog' = "critical"
    /\ UNCHANGED <<ff_terminating, pool_stocks, ff_env, jq_client, min_score, ff_pc, ff_mainlines, ff_top_n,
                   stocks_by_mainline, all_stock_codes, stock_mainline_map, ff_emitted,
                   ff_runs, current_signals, ff_table>>
    /\ OthersUnchanged

\* _on_error
FfOnError ==
    /\ ff_queue # <<>>
    /\ Head(ff_queue).signal = "error"
    /\ ff_queue' = Tail(ff_queue)
    /\ filter_btn' = TRUE
    /\ ff_progress_visible' = FALSE
    /\ ff_status' = Status("failed", 0)
    /\ ff_dialog' = "critical"
    /\ UNCHANGED <<ff_terminating, pool_stocks, ff_env, jq_client, min_score, ff_pc, ff_mainlines, ff_top_n,
                   stocks_by_mainline, all_stock_codes, stock_mainline_map, ff_emitted,
                   ff_runs, current_signals, ff_table>>
    /\ OthersUnchanged

\* the thread of a worker on which terminate() was called ends
FfTerminated ==
    /\ ff_terminating
    /\ ff_terminating' = FALSE
    /\ UNCHANGED <<pool_stocks, ff_env, jq_client, min_score, ff_pc, ff_mainlines, ff_top_n,
                   stocks_by_mainline, all_stock_codes, stock_mainline_map, ff_emitted,
                   ff_queue, ff_runs, filter_btn, ff_progress_visible, ff_status,
                   current_signals, ff_table, ff_dialog>>
    /\ OthersUnchanged

FfNext ==
    \/ StartFilterNoClient
    \/ StartFilterDeclined
    \/ \E loaded \in CandidateLists, top_n \in {MinTopN, DefaultTopN} :
           StartFilter(loaded, top_n)
    \/ FfFetch
    \/ FfMerge
    \/ FfScore
    \/ FfRaise
    \/ FfExit
    \/ FfTerminated
    \/ FfOnFinished
    \/ FfOnError

(***************************************************************************)
(* Specifications: one per run that is checked on its own.                 *)
(***************************************************************************)
\* the dedup-and-rank run of both callers on a drawn list
InitRank == RankInit /\ TechIdle /\ MlIdle /\ PanelIdle /\ RunIdle /\ FfIdle

SpecRank == InitRank /\ [][RankNext]_vars

\* a run of TechScanWorker
InitTech == TechInit /\ RankIdle /\ MlIdle /\ PanelIdle /\ RunIdle /\ FfIdle

SpecTech == InitTech /\ [][TechNext]_vars

\* a run of MainlineScanWorker
InitMainline == MlInit /\ RankIdle /\ TechIdle /\ PanelIdle /\ RunIdle /\ FfIdle

SpecMainline == InitMainline /\ [][MlNext]_vars

\* the panel: clicks, workers ending, handlers
InitPanel == PanelIdle /\ RankIdle /\ TechIdle /\ MlIdle /\ RunIdle /\ FfIdle

SpecPanel == InitPanel /\ [][PanelNext]_vars

\* the panel after construction, with two clicks on scan buttons to come
InitPanelLive ==
    /\ workers = [k \in WorkerKeys |-> 0]
    /\ threads = {}
    /\ qt_queue = <<>>
    /\ clicks = MaxClicks - 2
    /\ scan_choice = "none"
    /\ scan_results = <<>>
    /\ overview_status = ""
    /\ overview_source = <<>>
    /\ tab_table = [t \in Tabs |-> <<>>]
    /\ tab_progress = [t \in Tabs |-> FALSE]
    /\ tab_status = [t \in Tabs |-> ""]
    /\ code_preview = {}
    /\ signal_dialog = "none"
    /\ strategy_file = <<>>
    /\ RankIdle /\ TechIdle /\ MlIdle /\ RunIdle /\ FfIdle

\* the handlers of the signals queued for the UI thread
PanelHandlers ==
    \/ OnMainlineIdentificationDone
    \/ OnMainlineIdentificationError
    \/ OnOverviewMainlineDone
    \/ OnOverviewTechDone
    \/ OnOverviewEtfDone
    \/ OnOverviewExternalSignal
    \/ \E tab \in Tabs : OnSingleDone(tab)
    \/ OnEtfSingleDone

\* the panel when every run() that was started ends and the event loop of
\* the UI thread handles every queued signal
SpecPanelLive ==
    /\ InitPanelLive
    /\ [][PanelNext]_vars
    /\ WF_vars(WorkerEmits)
    /\ WF_vars(CompositeEnds)
    /\ WF_vars(PanelHandlers)

\* a run of one of the four scan workers
InitWorkers ==
    \/ InitTech
    \/ InitMainline
    \/ EtfInit /\ RankIdle /\ TechIdle /\ MlIdle /\ PanelIdle /\ FfIdle
    \/ ExtInit /\ RankIdle /\ TechIdle /\ MlIdle /\ PanelIdle /\ FfIdle

WorkersNext ==
    \/ TechNext
    \/ MlNext
    \/ EtfScan
    \/ EtfRaise
    \/ ExtParse
    \/ ExtRaise

SpecWorkers == InitWorkers /\ [][WorkersNext]_vars

\* the factor filter tab: clicks on the filter button, the worker, the handlers
InitFilter == FfInit /\ RankIdle /\ TechIdle /\ MlIdle /\ PanelIdle /\ RunIdle

SpecFilter == InitFilter /\ [][FfNext]_vars

\* the factor filter tab after construction, with two runs to come
InitFilterLive ==
    /\ ff_env \in FfEnvs
    /\ jq_client \in BOOLEAN
    /\ min_score = DefaultMinScore
    /\ ff_pc = "none"
    /\ ff_mainlines = <<>>
    /\ ff_top_n = DefaultTopN
    /\ stocks_by_mainline = EmptyMap
    /\ all_stock_codes = <<>>
    /\ stock_mainline_map = EmptyMap
    /\ ff_emitted = <<>>
    /\ ff_queue = <<>>
    /\ ff_runs = MaxFilterRuns - 2
    /\ filter_btn = TRUE
    /\ ff_progress_visible = FALSE
    /\ ff_status = Status("", 0)
    /\ current_signals = <<>>
    /\ ff_table = <<>>
    /\ pool_stocks = <<>>
    /\ ff_terminating = FALSE
    /\ ff_dialog = "none"
    /\ RankIdle /\ TechIdle /\ MlIdle /\ PanelIdle /\ RunIdle

\* the factor filter tab when the event loop of the UI thread handles every
\* queued signal; nothing is assumed of the worker, whose queries may hang
SpecFilterLive ==
    /\ InitFilterLive
    /\ [][FfNext]_vars
    /\ WF_vars(FfOnFinished \/ FfOnError)

(***************************************************************************)
(* Notions the claims use.                                                 *)
(***************************************************************************)
\* the identity of a record: its code when non-empty, its name otherwise
Identity(s) == IF s.code = "" THEN s.name ELSE s.code

\* the position of the first record of list l with identity k
FirstIdx(l, k) ==
    CHOOSE i \in 1..Len(l) :
        /\ Identity(l[i]) = k
        /\ \A j \in 1..(i - 1) : Identity(l[j]) # k

\* the position of the first record of list l with code c
FirstCodeIdx(l, c) ==
    CHOOSE i \in 1..Len(l) :
        /\ l[i].code = c
        /\ \A j \in 1..(i - 1) : l[j].code # c

\* a is ranked strictly before b by (priority ascending, mainline_score descending)
RankedBefore(a, b) ==
    \/ a.priority < b.priority
    \/ a.priority = b.priority /\ a.mainline_score > b.mainline_score

SameRank(a, b) == a.priority = b.priority /\ a.mainline_score = b.mainline_score

WorkerRan == rank_pc \in {"worker", "merged"}
Merged == rank_pc = "merged"

(***************************************************************************)
(* C2: in the scan-all merge no two entries of the deduplicated list share *)
(* an identity (code, or name when the code is empty), and every input     *)
(* record with a non-empty identity has an entry with that identity.       *)
(***************************************************************************)
C2_MergeIdentity ==
    Merged =>
        /\ \A i, j \in 1..Len(unique) :
               i # j => Identity(unique[i]) # Identity(unique[j])
        /\ \A i \in 1..Len(all_stocks) :
               Identity(all_stocks[i]) # "" =>
                   \E j \in 1..Len(unique) : Identity(unique[j]) = Identity(all_stocks[i])

\* a merge that dropped a duplicate and kept a record identified by its name
C2_Witness ==
    /\ Merged
    /\ Len(unique) < Len(all_stocks)
    /\ \E j \in 1..Len(unique) : unique[j].code = "" /\ unique[j].name # ""
    /\ \E i, j \in 1..Len(all_stocks) :
           i < j /\ Identity(all_stocks[i]) # "" /\ Identity(all_stocks[i]) = Identity(all_stocks[j])

(***************************************************************************)
(* C3: _deduplicate_and_sort uses the same identity rule: on an input that *)
(* the cap of 30 does not cut, a record with an empty code and a non-empty *)
(* name not seen before is kept, and only already-seen identities are      *)
(* dropped, so the identities of the output are those of the input.        *)
(***************************************************************************)
C3_WorkerIdentity ==
    (WorkerRan /\ Len(stocks) <= WorkerCap) =>
        {Identity(unique_stocks[j]) : j \in 1..Len(unique_stocks)}
            = {Identity(stocks[i]) : i \in 1..Len(stocks)} \ {""}

(***************************************************************************)
(* C4, as stated: the record retained for an identity is the first one     *)
(* with that identity under the stable order (priority ascending,          *)
(* mainline_score descending), in the merge and in _deduplicate_and_sort.  *)
(***************************************************************************)
RankSorted(l) == StableSort(l, [i \in 1..Len(l) |-> <<l[i].priority, -l[i].mainline_score>>])

FirstRanked(l, k) == RankSorted(l)[FirstIdx(RankSorted(l), k)]

C4_BestRankedWins ==
    /\ Merged =>
           \A j \in 1..Len(unique) :
               unique[j] = FirstRanked(all_stocks, Identity(unique[j]))
    /\ WorkerRan =>
           \A j \in 1..Len(unique_stocks) :
               unique_stocks[j] = FirstRanked(stocks, Identity(unique_stocks[j]))

(***************************************************************************)
(* C4, amended: the record retained for an identity is the first one with  *)
(* that identity in the order of the input list (the merge keys on code,   *)
(* else name; _deduplicate_and_sort keys on the code); the sort runs on    *)
(* the deduplicated list and does not choose among duplicates.             *)
(***************************************************************************)
C4_FirstSeenWins ==
    /\ Merged =>
           \A j \in 1..Len(unique) :
               unique[j] = all_stocks[FirstIdx(all_stocks, Identity(unique[j]))]
    /\ WorkerRan =>
           \A j \in 1..Len(unique_stocks) :
               unique_stocks[j] = stocks[FirstCodeIdx(stocks, unique_stocks[j].code)]

\* a duplicate ranked strictly before the first-seen record lost against it,
\* in the merge and in the worker
C4_Witness ==
    /\ Merged
    /\ \E j \in 1..Len(unique) : \E i \in 1..Len(all_stocks) :
           /\ Identity(all_stocks[i]) = Identity(unique[j])
           /\ RankedBefore(all_stocks[i], unique[j])
    /\ \E j \in 1..Len(unique_stocks) : \E i \in 1..Len(stocks) :
           /\ stocks[i].code = unique_stocks[j].code
           /\ RankedBefore(stocks[i], unique_stocks[j])

(***************************************************************************)
(* C5, as stated: both outputs are a stable sort of the deduplicated list  *)
(* by (priority ascending, mainline_score descending): priorities never    *)
(* decrease, mainline_score never increases within a priority, and two     *)
(* entries equal on both keys keep their relative input order.             *)
(***************************************************************************)
C5_StableTwoKeySort ==
    /\ Merged =>
           \A a, b \in 1..Len(unique) :
               a < b =>
                   /\ ~RankedBefore(unique[b], unique[a])
                   /\ SameRank(unique[a], unique[b]) =>
                          FirstIdx(all_stocks, Identity(unique[a]))
                              < FirstIdx(all_stocks, Identity(unique[b]))
    /\ WorkerRan =>
           \A a, b \in 1..Len(unique_stocks) :
               a < b =>
                   /\ ~RankedBefore(unique_stocks[b], unique_stocks[a])
                   /\ SameRank(unique_stocks[a], unique_stocks[b]) =>
                          FirstCodeIdx(stocks, unique_stocks[a].code)
                              < FirstCodeIdx(stocks, unique_stocks[b].code)

(***************************************************************************)
(* C5, amended: the merge output is a stable sort by (priority ascending,  *)
(* mainline_score descending); the output of _deduplicate_and_sort is a    *)
(* stable sort by (priority ascending, mainline_score descending,          *)
(* change_pct descending): entries equal on priority and score are ordered *)
(* by change_pct descending, and only entries equal on all three keys keep *)
(* their relative input order.                                             *)
(***************************************************************************)
C5_SortedOutputs ==
    /\ Merged =>
           \A a, b \in 1..Len(unique) :
               a < b =>
                   /\ ~RankedBefore(unique[b], unique[a])
                   /\ SameRank(unique[a], unique[b]) =>
                          FirstIdx(all_stocks, Identity(unique[a]))
                              < FirstIdx(all_stocks, Identity(unique[b]))
    /\ WorkerRan =>
           \A a, b \in 1..Len(unique_stocks) :
               a < b =>
                   /\ ~RankedBefore(unique_stocks[b], unique_stocks[a])
                   /\ SameRank(unique_stocks[a], unique_stocks[b]) =>
                          /\ unique_stocks[a].change_pct >= unique_stocks[b].change_pct
                          /\ unique_stocks[a].change_pct = unique_stocks[b].change_pct =>
                                 FirstCodeIdx(stocks, unique_stocks[a].code)
                                     < FirstCodeIdx(stocks, unique_stocks[b].code)

\* two entries equal on priority and score: the merge kept their input order,
\* the worker put the later one first because its change_pct is higher
C5_Witness ==
    /\ Merged
    /\ \E a, b \in 1..Len(unique) :
           /\ a < b
           /\ SameRank(unique[a], unique[b])
           /\ unique[a].change_pct < unique[b].change_pct
    /\ \E a, b \in 1..Len(unique_stocks) :
           /\ a < b
           /\ SameRank(unique_stocks[a], unique_stocks[b])
           /\ FirstCodeIdx(stocks, unique_stocks[a].code)
                  > FirstCodeIdx(stocks, unique_stocks[b].code)
    /\ \E a, b \in 1..Len(unique) : RankedBefore(unique[a], unique[b])

(***************************************************************************)
(* C6: the ranked list is cut to a fixed cap after sorting: the worker's   *)
(* list has at most 30 entries, the overview table at most 50 rows, each   *)
(* is as long as the cap allows, and its entries are the first entries of  *)
(* the sorted deduplicated list.                                           *)
(***************************************************************************)
CodesOf(l) == {l[i].code : i \in 1..Len(l)} \ {""}

C6_TruncatedAfterSort ==
    /\ WorkerRan =>
           /\ Len(unique_stocks) <= WorkerCap
           /\ Len(unique_stocks) = Min(WorkerCap, Cardinality(CodesOf(stocks)))
           /\ unique_stocks = Take(WorkerSorted(stocks), Len(unique_stocks))
    /\ Merged =>
           /\ Len(overview_table) <= OverviewCap
           /\ Len(overview_table) = Min(OverviewCap, Len(unique))
           /\ overview_table = Take(unique, Len(overview_table))

\* both caps cut: more than 30 codes went into the worker's list and more
\* than 50 identities into the merge, and a record that was cut off ranks
\* no earlier than the last one kept
C6_Witness ==
    /\ Merged
    /\ Cardinality(CodesOf(stocks)) > WorkerCap
    /\ Len(unique_stocks) = WorkerCap
    /\ Len(unique) > OverviewCap
    /\ Len(overview_table) = OverviewCap
    /\ ~RankedBefore(unique[OverviewCap + 1], overview_table[OverviewCap])

(***************************************************************************)
(* Notions the claims on TechScanWorker use.                               *)
(***************************************************************************)
\* the list of the emission made on the real-data path, <<>> if there is none
TechRealEmitted ==
    IF tech_finished # <<>> /\ tech_finished[1][2] = "AKShare" THEN tech_finished[1][1] ELSE <<>>

TechOnRealPath == tech_pc = "loop" \/ (tech_pc = "done" /\ tech_finished[1][2] = "AKShare")

\* the rows of df that record e can come from
RowsOf(e) == {i \in 1..Len(df) : df[i].code = e.code /\ df[i].name = e.name}

MomentumSignal(row) == row.change >= 50
VolumeSignal(row) == row.volume_ratio >= 20
CapInRange(row) == 300 <= row.total_mv /\ row.total_mv <= 50000

(***************************************************************************)
(* C7: every record TechScanWorker collects and emits on its real-data     *)
(* path comes from a row whose capitalisation is within [30, 5000] and     *)
(* that has a momentum signal (change >= 5) or a volume signal (ratio >=   *)
(* 2), and has a score >= 25; a row with neither signal is never emitted.  *)
(***************************************************************************)
C7_TechFilter ==
    TechOnRealPath =>
        /\ \A k \in 1..Len(tech_stocks) :
               /\ tech_stocks[k]._score >= 25
               /\ \E i \in RowsOf(tech_stocks[k]) :
                      /\ CapInRange(df[i])
                      /\ MomentumSignal(df[i]) \/ VolumeSignal(df[i])
        /\ \A i \in 1..Len(df) :
               (~MomentumSignal(df[i]) /\ ~VolumeSignal(df[i])) =>
                   \A k \in 1..Len(TechRealEmitted) : i \notin RowsOf(TechRealEmitted[k])

\* a finished real run that emitted records and left out a row with the
\* turnover signal only and a row with signals but a capitalisation out of range
C7_Witness ==
    /\ tech_pc = "done"
    /\ TechRealEmitted # <<>>
    /\ \E i \in 1..Len(df) :
           /\ df[i].name = "Co" \o ToString(i) /\ df[i].code # ""
           /\ CapInRange(df[i])
           /\ ~MomentumSignal(df[i]) /\ ~VolumeSignal(df[i])
           /\ 50 <= df[i].turnover /\ df[i].turnover <= 150
    /\ \E i \in 1..Len(df) :
           /\ df[i].name = "Co" \o ToString(i) /\ df[i].code # ""
           /\ ~CapInRange(df[i])
           /\ df[i].change >= 99 /\ VolumeSignal(df[i])

(***************************************************************************)
(* C8: the score computed for a row equals the additive reference: one of  *)
(* +40 (change >= 9.9), +25 (7 <= change < 9.9), +15 (5 <= change < 7) or  *)
(* 0, plus one of +25 (ratio >= 3), +15 (2 <= ratio < 3) or 0, plus +10    *)
(* when the turnover is within [5, 15].                                    *)
(***************************************************************************)
RefMomentum(c) ==
    CASE c >= 99 -> 40
      [] 70 <= c /\ c < 99 -> 25
      [] 50 <= c /\ c < 70 -> 15
      [] c < 50 -> 0

RefVolume(v) ==
    CASE v >= 30 -> 25
      [] 20 <= v /\ v < 30 -> 15
      [] v < 20 -> 0

RefTurnover(u) == IF u \in 50..150 THEN 10 ELSE 0

RefScore(row) == RefMomentum(row.change) + RefVolume(row.volume_ratio) + RefTurnover(row.turnover)

C8_ScoreAdditive ==
    /\ (tech_row.row > 0 /\ tech_row.skipped = "") =>
           tech_row.score = RefScore(df[tech_row.row])
    /\ TechOnRealPath =>
           \A k \in 1..Len(tech_stocks) :
               \E i \in RowsOf(tech_stocks[k]) : tech_stocks[k]._score = RefScore(df[i])

\* a row scored on the boundary of every bracket: 9.9, 2 and 15
C8_Witness ==
    /\ tech_row.row > 0 /\ tech_row.skipped = ""
    /\ df[tech_row.row].change = 99
    /\ df[tech_row.row].volume_ratio = 20
    /\ df[tech_row.row].turnover = 150
    /\ tech_row.score = 65

(***************************************************************************)
(* C9: the list emitted on the real-data path is sorted by score           *)
(* descending, has at most 20 entries (as many as there are accepted rows, *)
(* up to 20), and no accepted row left out of it has a strictly higher     *)
(* score than an entry in it.                                              *)
(***************************************************************************)
AcceptedRows == {i \in 1..Len(df) : TechBody(i, df[i]).accepted}

EmittedRows == UNION {RowsOf(TechRealEmitted[k]) : k \in 1..Len(TechRealEmitted)}

C9_TechRanked ==
    (tech_pc = "done" /\ tech_finished[1][2] = "AKShare") =>
        /\ Len(TechRealEmitted) <= TechCap
        /\ Len(TechRealEmitted) = Min(TechCap, Cardinality(AcceptedRows))
        /\ \A a, b \in 1..Len(TechRealEmitted) :
               a < b => TechRealEmitted[a]._score >= TechRealEmitted[b]._score
        /\ EmittedRows \subseteq AcceptedRows
        /\ \A i \in AcceptedRows \ EmittedRows :
               \A k \in 1..Len(TechRealEmitted) :
                   RefScore(df[i]) <= TechRealEmitted[k]._score

\* more than 20 rows were accepted, 20 were emitted, with different scores
C9_Witness ==
    /\ tech_pc = "done"
    /\ Cardinality(AcceptedRows) > TechCap
    /\ Len(TechRealEmitted) = TechCap
    /\ TechRealEmitted[1]._score > TechRealEmitted[TechCap]._score
    /\ \E i \in AcceptedRows \ EmittedRows : RefScore(df[i]) < TechRealEmitted[1]._score

(***************************************************************************)
(* Notions the claims on MainlineScanWorker use.                           *)
(***************************************************************************)
MlRealDone == ml_pc = "done" /\ ml_finished[1][2] = "JQData"

\* the list of the emission made on the real-data path, <<>> if there is none
MlRealEmitted == IF MlRealDone THEN ml_finished[1][1] ELSE <<>>

IsConstituent(s) == s.data_source = "JQData+AKShare"

(***************************************************************************)
(* C1: for every mainline that run processes (the first min(len,           *)
(* max_mainlines) mapped mainlines, stop not called) and whose             *)
(* leader_stock is non-empty, the list delivered by finished contains a    *)
(* record for that leader stock.                                           *)
(***************************************************************************)
C1_LeaderIncluded ==
    (MlRealDone /\ ~ml_stop) =>
        \A i \in 1..Min(Len(jqdata_mapped), max_mainlines) :
            jqdata_mapped[i].leader_stock # "" =>
                \E k \in 1..Len(MlRealEmitted) :
                    MlRealEmitted[k].name = jqdata_mapped[i].leader_stock

(***************************************************************************)
(* C10: constituents of a theme are included only when the theme's score   *)
(* is >= 60, at most max_stocks_per_mainline of them per theme, none of    *)
(* them named like the leader, and each has change_pct > -5 or belongs to  *)
(* a theme with score >= 70.                                               *)
(***************************************************************************)
C10_ConstituentRule ==
    /\ (ml_pc \in {"loop", "done"} /\ ml_i > 0) =>
           LET m == jqdata_mapped[ml_i]
               c == SelectSeq(mainline_stocks, IsConstituent)
           IN  /\ c # <<>> => m.total_score >= 60
               /\ Len(c) <= max_stocks_per_mainline
               /\ \A k \in 1..Len(c) :
                      /\ c[k].name # m.leader_stock
                      /\ c[k].mainline_score = m.total_score
                      /\ c[k].change_pct > -50 \/ m.total_score >= 70
    /\ \A k \in 1..Len(ml_all_stocks) :
           IsConstituent(ml_all_stocks[k]) =>
               /\ ml_all_stocks[k].mainline_score >= 60
               /\ ml_all_stocks[k].change_pct > -50 \/ ml_all_stocks[k].mainline_score >= 70
    /\ \A k \in 1..Len(MlRealEmitted) :
           /\ MlRealEmitted[k].mainline_score >= 60
           /\ MlRealEmitted[k].change_pct > -50 \/ MlRealEmitted[k].mainline_score >= 70

\* a theme of score 70 whose leader is one of its constituents: the leader was
\* left out by name, a constituent at -5% was included, and the limit of 5 cut
\* one of the six that remained; the run then emitted constituents
C10_Witness ==
    /\ MlRealDone
    /\ ml_i > 0
    /\ jqdata_mapped[ml_i].total_score = 70
    /\ jqdata_mapped[ml_i].leader_stock = "Alpha"
    /\ max_stocks_per_mainline = DefaultMaxStocksPerMainline
    /\ Len(SelectSeq(mainline_stocks, IsConstituent)) = max_stocks_per_mainline
    /\ Len(get_stocks_from_jqdata(jqdata_mapped[ml_i].jqdata_code,
                                  jqdata_mapped[ml_i].jqdata_type)) > max_stocks_per_mainline + 1
    /\ \E k \in 1..Len(mainline_stocks) :
           IsConstituent(mainline_stocks[k]) /\ mainline_stocks[k].change_pct = -50
    /\ \E k \in 1..Len(MlRealEmitted) : MlRealEmitted[k].change_pct = -50

(***************************************************************************)
(* Notions the claims about the panel use.                                 *)
(***************************************************************************)
\* a worker stored under key k is in its run()
Running(k) == \E w \in threads : w.key = k

\* a signal of a worker stored under key k awaits its handler
Queued(k) == \E i \in 1..Len(qt_queue) : qt_queue[i].key = k

\* how many workers of key k are running or have a signal queued
ActiveCount(k) ==
    Cardinality({w \in threads : w.key = k})
    + Cardinality({i \in 1..Len(qt_queue) : qt_queue[i].key = k})

\* how many workers of key k have had their finished signal handled
Handled(k) == workers[k] - ActiveCount(k)

ChainKeys == OverviewKeys \cup {"mainline_worker"}

(***************************************************************************)
(* C11: in a scan-all the four workers run one after another in the order  *)
(* mainline, technical, ETF, external: a worker of the chain is started    *)
(* only by the handler of its predecessor's finished signal (as many       *)
(* technical workers have been started as mainline results were handled,   *)
(* and so on), no two of them are underway together, and the overview      *)
(* table holds rows only when the external worker of the scan has been     *)
(* handled.                                                                *)
(***************************************************************************)
C11_StrictSequence ==
    /\ \A k \in OverviewKeys : ActiveCount(k) <= 1
    /\ Cardinality({k \in OverviewKeys : ActiveCount(k) > 0}) <= 1
    /\ workers["overview_tech"] = Handled("overview_mainline")
    /\ workers["overview_etf"] = Handled("overview_tech")
    /\ workers["overview_external"] = Handled("overview_etf")
    /\ Len(scan_results) < 4 => overview_table = <<>>
    /\ overview_table # <<>> =>
           /\ workers["overview_external"] > 0
           /\ Handled("overview_external") = workers["overview_mainline"]

\* a second scan-all has run through its four workers and filled the table
C11_Witness ==
    /\ workers["overview_mainline"] = 2
    /\ Handled("overview_external") = 2
    /\ Len(scan_results) = 4
    /\ overview_table # <<>>

(***************************************************************************)
(* C12, as stated: whatever the clicks on scan-all and on the scan buttons *)
(* of the tabs, at most one background scan worker is running at any time. *)
(***************************************************************************)
C12_OneWorkerAtATime ==
    Cardinality({w \in threads : w.key # "mainline_worker"}) <= 1

(***************************************************************************)
(* C12, amended: at most one worker of the scan-all chain (the             *)
(* identification worker included) is running at any time; the scan        *)
(* buttons of the tabs are not guarded, so the running workers are at most *)
(* one of the chain plus one per click on a tab's scan button.             *)
(***************************************************************************)
C12_NoFanOutInChain ==
    /\ Cardinality({w \in threads : w.key \in ChainKeys}) <= 1
    /\ \A w \in threads : w.key \in ChainKeys => ~scan_all_btn
    /\ \A t \in Tabs : Cardinality({w \in threads : w.key = t}) <= workers[t]

\* a worker of the chain and two workers of the same tab run together
C12_Witness ==
    /\ \E k \in OverviewKeys : Running(k)
    /\ \E t \in Tabs : Cardinality({w \in threads : w.key = t}) = 2

(***************************************************************************)
(* C13: what a run of a scan worker emits when a data source fails.        *)
(***************************************************************************)
\* the emissions of each of the four workers, and whether its run has ended
Emissions ==
    [MainlineScanWorker |-> ml_finished, TechScanWorker |-> tech_finished,
     ETFScanWorker |-> etf_finished, ExternalParseWorker |-> ext_finished]

RunEnded ==
    [MainlineScanWorker |-> ml_pc = "done", TechScanWorker |-> tech_pc = "done",
     ETFScanWorker |-> etf_pc = "done", ExternalParseWorker |-> ext_pc = "done"]

\* a call to an external data source failed in the run that has ended
CallFailed ==
    [MainlineScanWorker |-> ~ml_env.jq_ok \/ ~ml_env.mongo_ok \/ ~ml_env.fetch_ok,
     TechScanWorker |-> ~market.ok,
     ETFScanWorker |-> ~etf_market.ok,
     ExternalParseWorker |-> ~ext_pool.ok]

MockOf ==
    [MainlineScanWorker |-> get_mock_mainline_stocks, TechScanWorker |-> get_mock_tech_stocks,
     ETFScanWorker |-> get_mock_etfs, ExternalParseWorker |-> get_mock_external_stocks]

ScanWorkers == DOMAIN Emissions

\* C13 as stated: after a failure of an external data call the list a worker
\* delivers is its mock dataset or empty
C13_FailureMockOrEmpty ==
    \A w \in ScanWorkers :
        (RunEnded[w] /\ CallFailed[w]) =>
            /\ Len(Emissions[w]) = 1
            /\ Emissions[w][1][1] \in {MockOf[w], <<>>}

\* C13, amended: every run that has ended has emitted finished exactly once
\* (and a run underway not yet); a failure that ends the run (the login, the
\* market or ETF fetch, the parser, an exception) delivers the mock dataset
\* of the worker; MainlineScanWorker goes on after a failure of MongoDB (with
\* the score file) and of the constituent queries (with no constituents) and
\* then delivers the list computed from what it did obtain
C13_OneFinishedFailuresMasked ==
    /\ \A w \in ScanWorkers : Len(Emissions[w]) = IF RunEnded[w] THEN 1 ELSE 0
    /\ \A w \in {"TechScanWorker", "ETFScanWorker", "ExternalParseWorker"} :
           (RunEnded[w] /\ CallFailed[w]) => Emissions[w][1][1] = MockOf[w]
    /\ \A w \in ScanWorkers :
           (RunEnded[w] /\ Emissions[w][1][2] \in {"mock", "example"}) =>
               Emissions[w][1][1] = MockOf[w]
    /\ ml_pc = "done" =>
           /\ ~ml_env.jq_ok => ml_finished[1] = <<get_mock_mainline_stocks, "mock">>
           /\ ml_finished[1][2] # "mock" =>
                  /\ jqdata_mapped = SelectSeq(LoadMapped(ml_env), IsMapped)
                  /\ jqdata_mapped # <<>>
                  /\ ml_finished[1][1] = deduplicate_and_sort(ml_all_stocks)
           /\ (~ml_env.fetch_ok /\ ml_finished[1][2] # "mock") =>
                  /\ ml_finished[1][1] = <<>>
                  /\ \A i \in 1..Len(ml_all_stocks) : ml_all_stocks[i].code = ""

\* C13 witness: MongoDB failed, the score file took over and the run ended
\* with a real list that is not empty
C13_Witness ==
    /\ ml_pc = "done"
    /\ ml_env.jq_ok /\ ~ml_env.mongo_ok
    /\ ml_finished[1][2] = "JQData"
    /\ ml_finished[1][1] # <<>>
    /\ ml_finished[1][1] # get_mock_mainline_stocks

(***************************************************************************)
(* C14: what FactorFilterWorker does when its data source fails.           *)
(***************************************************************************)
\* run() of the current FactorFilterWorker has ended
FfEnded == ff_pc \in {"emitted", "exited"}

\* the constituent fetch or the factor scoring failed in the run
FfFailed ==
    \/ ff_env.fetch \in {"raise", "first raises"}
       /\ \E i \in 1..Len(ff_mainlines) : ~FetchAnswer(ff_env, ff_mainlines[i].jq_code).ok
    \/ ff_env.factor = "raise" /\ all_stock_codes # <<>>

\* C14 as stated: after a failure of the constituent fetch or of the factor
\* scoring the worker emits finished with a list and the tab gets no error
C14_MockFallback ==
    (FfEnded /\ FfFailed) =>
        /\ Len(ff_emitted) = 1
        /\ ff_emitted[1].signal = "finished"

\* C14, amended: FactorFilterWorker has no mock fallback. A run that has
\* ended has emitted exactly one signal; it is error when no constituent
\* was obtained or the scoring raised, and finished otherwise, with records
\* of fetched codes only (a constituent query that raises is skipped); an
\* error that has been handled is shown on the tab
C14_ErrorReported ==
    /\ Len(ff_emitted) = IF FfEnded THEN 1 ELSE 0
    /\ FfEnded =>
           /\ ff_emitted[1].signal \in {"finished", "error"}
           /\ (all_stock_codes = <<>> \/ ff_env.factor = "raise") =>
                  ff_emitted[1].signal = "error"
           /\ ff_emitted[1].signal = "finished" =>
                  \A i \in 1..Len(ff_emitted[1].list) :
                      /\ ff_emitted[1].list[i].code \in DOMAIN stock_mainline_map
                      /\ \E c \in DOMAIN stocks_by_mainline :
                             \E j \in 1..Len(stocks_by_mainline[c]) :
                                 stocks_by_mainline[c][j] = ff_emitted[1].list[i].code
           /\ (ff_emitted[1].signal = "error" /\ ff_queue = <<>>) =>
                  /\ ff_status.tag = "failed"
                  /\ filter_btn
                  /\ ~ff_progress_visible

\* C14 witness: the scoring raised on fetched codes and the tab shows the error
C14_Witness ==
    /\ FfEnded
    /\ ff_env.factor = "raise"
    /\ all_stock_codes # <<>>
    /\ ff_emitted = <<[signal |-> "error", list |-> <<>>]>>
    /\ ff_queue = <<>>
    /\ ff_status.tag = "failed"
    /\ ff_dialog = "critical"

(***************************************************************************)
(* C15: the accumulated list of a scan-all.                                *)
(***************************************************************************)
\* what the handler of position i of the chain appends for the list it received
Appended(i, list) ==
    IF i = 3 THEN [j \in 1..Len(list) |-> EtfToStock(list[j], "AKShare")] ELSE list

RECURSIVE Accumulated(_)
\* the concatenation of what the handlers appended for the first n lists
\* received in the current scan-all
Accumulated(n) ==
    IF n = 0 THEN <<>> ELSE Accumulated(n - 1) \o Appended(n, scan_results[n])

\* the codes a record of the current scan-all may carry: those of the
\* workers this scan started, the code of the example list, no code
CurrentCodes ==
    {"", "600519"} \cup
    {PanelCode([key |-> k, n |-> workers[k]], 1) : k \in {c \in OverviewKeys : workers[c] > 0}}

\* C15: at every point of a scan-all _all_stocks is the concatenation of
\* the lists the handlers of this scan have received (empty right after
\* _do_scan_all, the four results when the scan completes), and no record
\* in it comes from a worker of an earlier scan
C15_FreshAccumulation ==
    /\ Len(scan_results) <= 4
    /\ all_stocks = Accumulated(Len(scan_results))
    /\ scan_results = <<>> => overview_table = <<>>
    /\ \A i \in 1..Len(all_stocks) : all_stocks[i].code \in CurrentCodes
    /\ \A i \in 1..Len(overview_table) : overview_table[i].code \in CurrentCodes

\* C15 witness: a second scan-all has completed with records of all four sources
C15_Witness ==
    /\ workers["overview_mainline"] = 2
    /\ Len(scan_results) = 4
    /\ \A i \in 1..4 : scan_results[i] # <<>>
    /\ Len(all_stocks) = 4
    /\ scan_all_btn

(***************************************************************************)
(* C16: the stop flag of MainlineScanWorker.                               *)
(***************************************************************************)
\* C16: with _stop set at the head of the loop no further mainline is taken
\* and the step that follows emits the deduplicated, sorted list of what was
\* accumulated; with _stop set inside an iteration the iteration is carried
\* through (its mainline_stocks are appended) before the head is reached
\* again; finished is emitted once at most
C16_StopBetweenIterations ==
    [][ /\ (ml_stop /\ ml_pc = "loop") =>
               /\ ml_pc' # "body"
               /\ ml_i' = ml_i
               /\ ml_all_stocks' = ml_all_stocks
               /\ ml_pc' = "done" =>
                      ml_finished' = << <<deduplicate_and_sort(ml_all_stocks), "JQData">> >>
        /\ (ml_stop /\ ml_pc = "body" /\ ml_pc' = "loop") =>
               /\ ml_i' = ml_i + 1
               /\ ml_all_stocks' =
                      ml_all_stocks \o MainlineStocksOf(jqdata_mapped[ml_i + 1],
                                                        max_stocks_per_mainline)
        /\ (ml_pc = "body" /\ ml_pc' = "body") => ml_stop'
        /\ Len(ml_finished') <= 1
        /\ ml_pc' = "done" => Len(ml_finished') = 1
      ]_vars

\* C16 witness: stop() was called, the loop was left after the first of two
\* mainlines and the run ended with the list of that one
C16_Witness ==
    /\ ml_pc = "done"
    /\ ml_stop
    /\ ml_i = 1
    /\ MlTotal = 2
    /\ ml_all_stocks # <<>>
    /\ ml_finished = << <<deduplicate_and_sort(ml_all_stocks), "JQData">> >>
    /\ ml_finished[1][1] # <<>>

(***************************************************************************)
(* C17: dedup-and-rank applied to its own output.                          *)
(***************************************************************************)
\* C17: _deduplicate_and_sort applied to the list it returned returns that
\* list, and so does the scan-all merge (deduplicate, sort) applied to the
\* list it produced. (That equal inputs give equal outputs needs no check:
\* both read nothing but their argument.)
C17_Idempotent ==
    /\ WorkerRan => deduplicate_and_sort(unique_stocks) = unique_stocks
    /\ Merged => MergeSorted(unique) = unique

\* C17 witness: both ran on a list with duplicates, and each output holds
\* records that tie on the sort key, in the order of the input
C17_Witness ==
    /\ Merged
    /\ Len(unique_stocks) < Len(stocks)
    /\ Len(unique) < Len(all_stocks)
    /\ \E i \in 1..Len(unique_stocks) : \E j \in 1..Len(unique_stocks) :
           /\ i < j
           /\ WorkerKey(unique_stocks[i]) = WorkerKey(unique_stocks[j])
    /\ \E i \in 1..Len(unique) : \E j \in 1..Len(unique) :
           /\ i < j
           /\ MergeSortKey(unique[i]) = MergeSortKey(unique[j])

(***************************************************************************)
(* C18: the codes _generate_code embeds in the script.                     *)
(***************************************************************************)
\* C18: whenever _generate_code writes a script, its STOCK_POOL has at most
\* 20 entries, each entry is the code text of a row of the mainline, tech or
\* external table at that moment, and no entry is the empty string (the
\* entries come from a set, so none is repeated)
C18_ScriptCodes ==
    [][ code_preview' # code_preview =>
            /\ Cardinality(code_preview') <= CodeCap
            /\ code_preview' \subseteq TableCodes
            /\ "" \notin code_preview'
      ]_vars

(***************************************************************************)
(* C19: scan-all after the user declined mainline identification.          *)
(***************************************************************************)
\* C19: in a scan-all that was started with the answer No to the offer of
\* mainline identification, no step starts a MainlineScanWorker: neither
\* the click itself nor any step while that scan is underway
C19_DeclinedSkipsMainline ==
    [][ (scan_choice' = "declined" /\ ~scan_all_btn') =>
            workers'["overview_mainline"] = workers["overview_mainline"]
      ]_vars

(***************************************************************************)
(* C20: two scans of one tab that overlap.                                 *)
(***************************************************************************)
\* C20: the finished signal of every worker is queued and stays queued
\* until its handler runs; the handler of a signal of a tab's worker shows
\* the list of that signal in the table of the tab, whichever worker of the
\* tab sent it, and leaves the other tables alone. So the table shows the
\* list handled last
C20_LastWriterWins ==
    [][ /\ qt_queue' # qt_queue =>
               \/ qt_queue # <<>> /\ qt_queue' = Tail(qt_queue)
               \/ /\ Len(qt_queue') = Len(qt_queue) + 1
                  /\ SubSeq(qt_queue', 1, Len(qt_queue)) = qt_queue
                  /\ [key |-> qt_queue'[Len(qt_queue')].key,
                      n |-> qt_queue'[Len(qt_queue')].n] \in threads \ threads'
        /\ \A t \in Tabs :
               (Pending(t, "finished") /\ qt_queue' = Tail(qt_queue)) =>
                   /\ tab_table'[t] = Head(qt_queue).list
                   /\ ~tab_progress'[t]
                   /\ \A u \in Tabs \ {t} : tab_table'[u] = tab_table[u]
      ]_vars

\* C20 witness: two scans of the technical tab overlapped, the worker
\* started first finished last, and the table shows its list
C20_Witness ==
    /\ workers["tech"] = 2
    /\ ActiveCount("tech") = 0
    /\ tab_table["tech"] # <<>>
    /\ tab_table["tech"][1].code = PanelCode([key |-> "tech", n |-> 1], 1)

(***************************************************************************)
(* C21: a scan-all that has started comes to its end.                      *)
(***************************************************************************)
\* C21: whenever the scan-all button is disabled and the overview progress
\* bar visible, a state follows in which the button is enabled and the bar
\* hidden (every run ends, every queued signal is handled)
C21_ChainCompletes ==
    (~scan_all_btn /\ overview_progress_visible)
        ~> (scan_all_btn /\ ~overview_progress_visible)

\* C21 witness: a scan-all that began with the identification worker has
\* gone through all four handlers and released the button
C21_Witness ==
    /\ scan_choice = "identify"
    /\ workers["mainline_worker"] = 1
    /\ Len(scan_results) = 4
    /\ Handled("overview_external") = 1
    /\ scan_all_btn
    /\ ~overview_progress_visible

(***************************************************************************)
(* C22: one signal per run of FactorFilterWorker, and the tab's reaction.  *)
(***************************************************************************)
\* C22: no run of FactorFilterWorker emits two signals, a run that has ended
\* has emitted one (finished or error), and whenever a run has ended with
\* the filter button disabled a state follows in which the button is
\* enabled and the progress bar hidden
C22_OneSignalThenEnabled ==
    /\ [](Len(ff_emitted) <= 1)
    /\ [](FfEnded => /\ Len(ff_emitted) = 1
                     /\ ff_emitted[1].signal \in {"finished", "error"})
    /\ (FfEnded /\ ~filter_btn) ~> (filter_btn /\ ~ff_progress_visible)

\* C22 witness: a run ended with error, the handler has run and the button
\* is enabled again
C22_Witness ==
    /\ FfEnded
    /\ Len(ff_emitted) = 1
    /\ ff_emitted[1].signal = "error"
    /\ ff_queue = <<>>
    /\ filter_btn
    /\ ~ff_progress_visible

(***************************************************************************)
(* C23: the merge of FactorFilterWorker and the caps on what it passes on. *)
(***************************************************************************)
\* the entries of a list, as a set
Entries(list) == {list[i] : i \in 1..Len(list)}

\* the first mainline of the input whose stored constituent list holds code
FirstHolder(code) ==
    LET Holds(k) == /\ ff_mainlines[k].jq_code \in DOMAIN stocks_by_mainline
                    /\ code \in Entries(stocks_by_mainline[ff_mainlines[k].jq_code])
        first == CHOOSE k \in 1..Len(ff_mainlines) :
                     Holds(k) /\ \A h \in 1..(k - 1) : ~Holds(h)
    IN  ff_mainlines[first]

\* C23: a stored constituent list has at most 20 entries; the merged list
\* names no code twice and each code carries the name and score of the first
\* mainline of the input whose stored list holds it; process_candidate_pool
\* is called with at most 100 codes, the first of the merged list; the
\* simplified list has at most top_n records, for the first codes of the
\* merged list in its order
C23_MergeContract ==
    /\ \A c \in DOMAIN stocks_by_mainline : Len(stocks_by_mainline[c]) <= PerMainlineCap
    /\ \A i, j \in 1..Len(all_stock_codes) :
           i # j => all_stock_codes[i] # all_stock_codes[j]
    /\ \A i \in 1..Len(all_stock_codes) :
           LET c == all_stock_codes[i] IN
           /\ c \in DOMAIN stock_mainline_map
           /\ stock_mainline_map[c].mainline = FirstHolder(c).mainline
           /\ stock_mainline_map[c].mainline_score = FirstHolder(c).mainline_score
    /\ Len(pool_stocks) <= PoolCap
    /\ Len(pool_stocks) <= Len(all_stock_codes)
    /\ \A i \in 1..Len(pool_stocks) : pool_stocks[i] = all_stock_codes[i]
    /\ (FfEnded /\ ff_env.factor = "unavailable" /\ all_stock_codes # <<>>) =>
           LET results == ff_emitted[1].list IN
           /\ Len(results) <= ff_top_n
           /\ Len(results) <= Len(all_stock_codes)
           /\ \A i \in 1..Len(results) : results[i].code = all_stock_codes[i]

\* C23 witness: six mainlines gave 119 codes after a duplicate was passed
\* over, and process_candidate_pool was called with the first 100
C23_Witness ==
    /\ ff_mainlines = LongCandidates
    /\ Len(all_stock_codes) = 119
    /\ Len(pool_stocks) = PoolCap
    /\ FfEnded

(***************************************************************************)
(* C24: a scan-all that begins with the identification worker.             *)
(***************************************************************************)
\* the UI thread handles a signal of the identification worker in this step
IdentificationHandled ==
    /\ qt_queue # <<>>
    /\ Head(qt_queue).key = "mainline_worker"
    /\ qt_queue' = Tail(qt_queue)

\* C24: while the identification worker runs or its signal waits, no worker
\* of the scan chain is underway; the handler of its signal (finished or
\* error) starts the chain once, with an empty _all_stocks, and nothing but
\* a click or that handler ever starts a chain; from the click to the end
\* of the chain, on the error path too, the scan-all button is disabled
C24_IdentifyThenScanOnce ==
    [][/\ ActiveCount("mainline_worker") > 0 =>
              /\ \A k \in OverviewKeys : ActiveCount(k) = 0
              /\ ~scan_all_btn
       /\ IdentificationHandled =>
              /\ workers'["overview_mainline"] = workers["overview_mainline"] + 1
              /\ [key |-> "overview_mainline", n |-> workers'["overview_mainline"]]
                     \in threads'
              /\ all_stocks' = <<>>
              /\ ~scan_all_btn'
              /\ overview_progress_visible'
       /\ (clicks' = clicks /\ workers'["overview_mainline"] # workers["overview_mainline"])
              => IdentificationHandled
       /\ (scan_choice = "identify" /\ \E k \in ChainKeys : ActiveCount(k) > 0)
              => ~scan_all_btn
      ]_vars

\* C24 witness: the signal of the identification worker has been handled
\* and the first worker of the chain runs
C24_Witness ==
    /\ scan_choice = "identify"
    /\ Handled("mainline_worker") = 1
    /\ workers["overview_mainline"] = 1
    /\ ActiveCount("overview_mainline") = 1
    /\ ~scan_all_btn

(***************************************************************************)
(* C25: _generate_code without a code to write.                            *)
(***************************************************************************)
\* the mainline, tech and external tables hold no row
NoRows == \A t \in {"mainline", "tech", "external"} : tab_table[t] = <<>>

\* C25: a step of _generate_code taken with no row in the three tables
\* shows the warning and changes neither the preview nor the file; a step
\* that changes the file or the preview is taken with a row in a table,
\* and writes at least one code
C25_EmptyRejected ==
    [][/\ (NoRows /\ signal_dialog' # signal_dialog) =>
              /\ signal_dialog' = "warning"
              /\ code_preview' = code_preview
              /\ strategy_file' = strategy_file
       /\ (strategy_file' # strategy_file \/ code_preview' # code_preview) =>
              /\ ~NoRows
              /\ strategy_file' = <<code_preview'>>
              /\ code_preview' # {}
      ]_vars

\* C25 witness: a script had been written, the tables were emptied by new
\* scans, and _generate_code answered with the warning
C25_Witness ==
    /\ NoRows
    /\ signal_dialog = "warning"
    /\ strategy_file # <<>>
    /\ code_preview # {}

(***************************************************************************)
(* C26: _generate_code after a scan in another tab.                        *)
(***************************************************************************)
\* the codes of the rows the panel shows: the overview table and the tables
\* of the four tabs
ShownCodes ==
    {overview_table[i].code : i \in 1..Len(overview_table)} \cup
    UNION {{tab_table[t][i].code : i \in 1..Len(tab_table[t])} : t \in Tabs}

\* C26 as stated: a click on generate taken when a scan in another tab
\* (the overview and the ETF tab among them) has filled its table answers
\* with the information box, and the script holds the codes shown (all of
\* them when they are at most 20)
C26_ScannedCodesInScript ==
    [][(signal_dialog' # signal_dialog /\ ShownCodes # {}) =>
           /\ signal_dialog' = "information"
           /\ Cardinality(ShownCodes) <= CodeCap => ShownCodes \subseteq code_preview'
      ]_vars

(***************************************************************************)
(* C27: the scan-all button while a scan-all is in progress.               *)
(***************************************************************************)
\* the identification worker or a worker of the chain runs, or its signal
\* waits for its handler
ScanAllInProgress == \E k \in ChainKeys : ActiveCount(k) > 0

\* the workers of scan-all that run or whose signal waits, over all keys
RECURSIVE ChainActive(_)
ChainActive(keys) ==
    IF keys = {} THEN 0
    ELSE LET k == CHOOSE x \in keys : TRUE
         IN  ActiveCount(k) + ChainActive(keys \ {k})

\* C27: while a scan-all is in progress the scan-all button is disabled and
\* one worker of it at most is underway; a step that starts a chain (and
\* resets _all_stocks) is taken when no worker of a chain is underway
C27_NoOverlap ==
    /\ [](ScanAllInProgress => ~scan_all_btn /\ ChainActive(ChainKeys) = 1)
    /\ [][workers'["overview_mainline"] # workers["overview_mainline"] =>
              \A k \in OverviewKeys : ActiveCount(k) = 0]_vars

\* C27 witness: a second scan-all has been started after the first one
\* completed, and its technical worker is underway
C27_Witness ==
    /\ workers["overview_mainline"] = 2
    /\ ActiveCount("overview_tech") = 1
    /\ ~scan_all_btn
    /\ all_stocks # <<>>

(***************************************************************************)
(* C28: the overview progress bar during the mainline scan of a scan-all.  *)
(***************************************************************************)
\* _start_mainline_scan, line 1068: setValue(int(p * 0.4))
MainlineBarValue(p) == (p * 4) \div 10

\* the values set on the overview progress bar from _do_scan_all (0) to the
\* end of the run of the mainline worker
OverviewBarValues ==
    <<0>> \o [i \in 1..Len(ml_progress) |-> MainlineBarValue(ml_progress[i])]

\* C28 as stated: each value set on the overview progress bar is within
\* 0..100 and at least the value set before it
C28_ProgressNeverDecreases ==
    \A i \in 1..Len(OverviewBarValues) :
        /\ OverviewBarValues[i] \in 0..100
        /\ i > 1 => OverviewBarValues[i] >= OverviewBarValues[i - 1]

(***************************************************************************)
(* C29: the count in the completion status and the rows of the table.      *)
(***************************************************************************)
\* C29 as stated: when the factor filter tab reports completion the count
\* in its status (len(signals)) is the number of rows of its table, and
\* when the scan-all merge has run the count in the overview status
\* (len(unique)) is the number of rows of the overview table
C29_CountMatchesRows ==
    /\ ff_status.tag = "done" => ff_status.n = Len(ff_table)
    /\ rank_pc = "merged" => Len(unique) = Len(overview_table)

(***************************************************************************)
(* C30: the workers of a FactorFilterTab.                                  *)
(***************************************************************************)
\* the threads of FactorFilterWorker that run: the current worker until
\* run() has returned, and a worker terminate() was called on until its
\* thread has ended
RunningWorkers ==
    (IF ff_pc \in {"fetch", "merge", "score", "emitted"} THEN 1 ELSE 0)
    + (IF ff_terminating THEN 1 ELSE 0)

\* the current worker has been started and its signal is not handled yet
AwaitingSignal == ff_pc \in {"fetch", "merge", "score"} \/ ff_queue # <<>>

\* C30 as stated: at most one worker runs at any time; the filter button
\* is disabled from the start of a worker until its signal is handled; a
\* step of _start_filter that only shows the warning or the question
\* changes neither the button nor the progress bar nor the table and
\* starts no worker
C30_OneWorker ==
    /\ [](RunningWorkers <= 1)
    /\ [](AwaitingSignal => ~filter_btn)
    /\ [][(ff_dialog' \in {"warning", "question"} /\ ff_dialog' # ff_dialog
            /\ ff_runs' = ff_runs) =>
              UNCHANGED <<filter_btn, ff_progress_visible, ff_table, ff_pc>>]_vars

====
